---------------------------- MODULE Spec2Model ----------------------------
(***************************************************************************)
(* A model of the RDMA van of ps-lite: the address pool, the per-peer      *)
(* endpoint with its work-request contexts, the RDMA and IPC transports,   *)
(* the rendezvous / address-cache protocol, the completion-queue poller    *)
(* and the SendMsg / RecvMsg facade (src/src/rdma_van.h and the transport  *)
(* header src/unnamed/part_000).                                          *)
(***************************************************************************)
EXTENDS Integers, Sequences, FiniteSets, TLC

(***************************************************************************)
(* Bounds of the model.  The depths and the pool capacity are the          *)
(* program's constants scaled down (128/256 and 512 in the source); the    *)
(* relations between them are kept as the source states them.              *)
(***************************************************************************)
\* AddressPool::kMaxEntries (512 in the source), scaled
kMaxEntries == 3
\* number of threads calling the address pool concurrently
PoolThreads == 2
\* number of StoreAddress calls of one behaviour of the pool specification
MaxPoolStores == 5

\* the null pointer; every other pointer is a non-empty tuple
NULL == << >>

(***************************************************************************)
(*                            ADDRESS POOL                                 *)
(***************************************************************************)
VARIABLES
    ap_pool,     \* the AddressPool object: table_, indices_ (and whether indices_ underflowed)
    ap_mu,       \* the set of threads holding mu_ (empty or one thread)
    ap_pc,       \* per thread: what it is doing
    ap_held,     \* ghost: <<ptr, idx>> returned by StoreAddress and not yet released
    ap_log,      \* ghost: the last call that returned, [op, idx, ptr, populated]
    ap_nstore,   \* number of StoreAddress calls made so far
    ap_fatal     \* a CHECK failed

apvars == <<ap_pool, ap_mu, ap_pc, ap_held, ap_log, ap_nstore, ap_fatal>>

VARIABLES
    van,     \* per node: the RDMAVan object, its two endpoints and transports, its heap
    shm,     \* the shared-memory regions, per key
    app      \* the kv layer above the van: requests in flight, handed messages, ghosts

vars == <<van, shm, app>>

VARIABLES
    bind     \* a call of RDMAVan::Bind: its arguments, its locals, the listener

bindvars == <<bind>>

VARIABLES
    cm,      \* the RDMAVan members that connection management and Stop use
    cmenv,   \* the RDMA connection manager and the peer: identifiers, queued events
    cmth,    \* the threads: the caller of Connect and Stop, the two pollers
    cmlog    \* ghost: what the last Connect, accept and dispatch did

cmvars == <<cm, cmenv, cmth, cmlog>>

VARIABLES
    lk       \* the threads that use the tables of the van: position, mutexes held

lkvars == <<lk>>

VARIABLES
    rc       \* a van with two receivers: its address caches, the replies it got

rcvars == <<rc>>

VARIABLES
    la       \* a landing area and the value writes that went to it

lavars == <<la>>

VARIABLES
    lf       \* the endpoints of one peer over their lifetime, and both pollers

lfvars == <<lf>>

VARIABLES
    fb       \* two fabric vans and the ZMQ messages between them

fbvars == <<fb>>

extvars == <<lavars, lfvars, fbvars>>

auxvars == <<bindvars, cmvars, lkvars, rcvars, extvars>>

\* the variables of the other specifications while they are not in use
BindIdle == bind = [pc |-> "none"]
ConnIdle == cm = [pc |-> "none"] /\ cmenv = [pc |-> "none"] /\ cmth = [pc |-> "none"]
            /\ cmlog = [pc |-> "none"]
LockIdle == lk = [pc |-> "none"]
CacheIdle == rc = [pc |-> "none"]
LandIdle == la = [pc |-> "none"]
LifeIdle == lf = [pc |-> "none"]
FabIdle == fb = [pc |-> "none"]
ExtIdle == LandIdle /\ LifeIdle /\ FabIdle
AuxIdle == BindIdle /\ ConnIdle /\ LockIdle /\ CacheIdle /\ ExtIdle

allvars == <<van, shm, app, ap_pool, ap_mu, ap_pc, ap_held, ap_log, ap_nstore, ap_fatal,
             auxvars>>

PoolIdx == 0 .. (kMaxEntries - 1)
\* index kMaxEntries stands for the memory behind table_[kMaxEntries - 1]
OutOfRange == kMaxEntries

RECURSIVE UpTo(_, _)
UpTo(i, n) == IF i >= n THEN << >> ELSE <<i>> \o UpTo(i + 1, n)

\* AddressPool::AddressPool: every index queued in order, every slot empty
AddressPoolNew == [table   |-> [i \in 0 .. kMaxEntries |-> NULL],
                   indices |-> UpTo(0, kMaxEntries),
                   corrupt |-> FALSE]

\* AddressPool::GetAddressAndRelease: CHECK(ptr), push the index, clear the slot
GetAddressAndRelease(pool, index) ==
    LET ptr == pool.table[index] IN
    IF ptr = NULL
    THEN [fatal |-> TRUE, ptr |-> NULL, pool |-> pool]
    ELSE [fatal |-> FALSE, ptr |-> ptr,
          pool  |-> [pool EXCEPT !.indices = Append(@, index),
                                 !.table[index] = NULL]]

\* StoreAddress without its CHECK_EQ(table_[idx], nullptr)
StoreAddress_NoCheck(pool, ptr) ==
    IF pool.indices # << >> /\ ~pool.corrupt
    THEN LET idx == Head(pool.indices) IN
         {[fatal |-> FALSE, idx |-> idx, ub |-> FALSE,
           pool  |-> [pool EXCEPT !.indices = Tail(@), !.table[idx] = ptr]]}
    ELSE {[fatal |-> FALSE, idx |-> g, ub |-> TRUE,
           pool  |-> [pool EXCEPT !.corrupt = TRUE, !.table[g] = ptr,
                                  !.indices = IF @ = << >> THEN @ ELSE Tail(@)]]
             : g \in 0 .. kMaxEntries}

\* AddressPool::StoreAddress.  The result is a set: front() and pop() of an
\* empty std::queue are undefined, so on an empty (or once underflowed) queue
\* the index read is any value; CHECK_EQ(table_[idx], nullptr) then decides
\* between the fatal state and a store into the slot that value names.
StoreAddress(pool, ptr) ==
    IF ptr = NULL THEN {[fatal |-> TRUE, idx |-> 0, pool |-> pool, ub |-> FALSE]}
    ELSE IF pool.indices # << >> /\ ~pool.corrupt
    THEN LET idx == Head(pool.indices) IN
         IF pool.table[idx] # NULL
         THEN {[fatal |-> TRUE, idx |-> idx, pool |-> pool, ub |-> FALSE]}
         ELSE {[fatal |-> FALSE, idx |-> idx, ub |-> FALSE,
                pool  |-> [pool EXCEPT !.indices = Tail(@), !.table[idx] = ptr]]}
    ELSE {[fatal |-> TRUE, idx |-> 0, pool |-> [pool EXCEPT !.corrupt = TRUE], ub |-> TRUE]}
         \cup
         {[fatal |-> FALSE, idx |-> g, ub |-> TRUE,
           pool  |-> [pool EXCEPT !.corrupt = TRUE, !.table[g] = ptr,
                                  !.indices = IF @ = << >> THEN @ ELSE Tail(@)]]
             : g \in {i \in 0 .. kMaxEntries : pool.table[i] = NULL}}

PoolInit ==
    /\ ap_pool = AddressPoolNew
    /\ ap_mu = {}
    /\ ap_pc = [t \in 1 .. PoolThreads |-> [op |-> "idle"]]
    /\ ap_held = {}
    /\ ap_log = [op |-> "none"]
    /\ ap_nstore = 0
    /\ ap_fatal = FALSE

\* a thread enters StoreAddress(ptr) and takes mu_; ptr is a fresh BufferContext
PoolEnterStore(t) ==
    /\ ~ap_fatal /\ ap_mu = {} /\ ap_pc[t].op = "idle"
    /\ ap_nstore < MaxPoolStores
    /\ ap_mu' = {t}
    /\ ap_nstore' = ap_nstore + 1
    /\ ap_pc' = [ap_pc EXCEPT ![t] = [op |-> "store", ptr |-> <<"ctx", ap_nstore + 1>>]]
    /\ UNCHANGED <<ap_pool, ap_held, ap_log, ap_fatal, vars, auxvars>>

\* a thread enters GetAddressAndRelease(index) and takes mu_
PoolEnterRelease(t) ==
    /\ ~ap_fatal /\ ap_mu = {} /\ ap_pc[t].op = "idle"
    /\ \E i \in 0 .. kMaxEntries :
          ap_pc' = [ap_pc EXCEPT ![t] = [op |-> "release", index |-> i]]
    /\ ap_mu' = {t}
    /\ UNCHANGED <<ap_pool, ap_held, ap_log, ap_nstore, ap_fatal, vars, auxvars>>

\* the body of StoreAddress under the lock, and the unlock
PoolStore(t) ==
    /\ ~ap_fatal /\ ap_mu = {t} /\ ap_pc[t].op = "store"
    /\ \E r \in StoreAddress(ap_pool, ap_pc[t].ptr) :
          /\ ap_pool' = r.pool
          /\ ap_fatal' = r.fatal
          /\ ap_held' = IF r.fatal THEN ap_held ELSE ap_held \cup {<<ap_pc[t].ptr, r.idx>>}
          /\ ap_log' = IF r.fatal THEN [op |-> "fatal"]
                       ELSE [op |-> "store", idx |-> r.idx, ptr |-> ap_pc[t].ptr,
                             populated |-> ap_pool.table[r.idx] # NULL,
                             held |-> \E h \in ap_held : h[2] = r.idx]
    /\ ap_mu' = {}
    /\ ap_pc' = [ap_pc EXCEPT ![t] = [op |-> "idle"]]
    /\ UNCHANGED <<ap_nstore, vars, auxvars>>

\* the body of GetAddressAndRelease under the lock, and the unlock
PoolRelease(t) ==
    /\ ~ap_fatal /\ ap_mu = {t} /\ ap_pc[t].op = "release"
    /\ LET r == GetAddressAndRelease(ap_pool, ap_pc[t].index) IN
          /\ ap_pool' = r.pool
          /\ ap_fatal' = r.fatal
          /\ ap_held' = IF r.fatal THEN ap_held
                        ELSE {h \in ap_held : h[2] # ap_pc[t].index}
          /\ ap_log' = IF r.fatal THEN [op |-> "fatal"]
                       ELSE [op |-> "release", idx |-> ap_pc[t].index, ptr |-> r.ptr]
    /\ ap_mu' = {}
    /\ ap_pc' = [ap_pc EXCEPT ![t] = [op |-> "idle"]]
    /\ UNCHANGED <<ap_nstore, vars, auxvars>>

PoolNext ==
    \E t \in 1 .. PoolThreads :
        \/ PoolEnterStore(t)
        \/ PoolEnterRelease(t)
        \/ PoolStore(t)
        \/ PoolRelease(t)

(***************************************************************************)
(*                 CONSTANTS AND PURE HELPERS OF THE VAN                   *)
(***************************************************************************)
\* kStartDepth (128 in the source), scaled; the other depths follow from it
kStartDepth == 3
kWriteDepth == kStartDepth
kRxDepth == kStartDepth * 2
kReplyDepth == kRxDepth
\* sysconf(_SC_PAGESIZE), scaled
pagesize_ == 4
\* sizeof(RawMeta), the fixed part of a packed Meta, scaled
kRawMetaLen == 3
\* bytes that one data_type entry adds to a packed Meta, scaled
kDataTypeLen == 1
\* kMaxMetaBound, the slack SendRendezvousReply adds to a landing area, scaled
kMaxMetaBound == 2
\* number of keys the worker uses
NumKeys == 1
\* capacity in bytes of the worker's and the server's value buffers
MaxValLen == 1
\* number of push/pull requests the worker issues in one behaviour
MaxOps == 3
\* number of control messages the worker sends in one behaviour
MaxCtrl == 1
\* BYTEPS_IPC_COPY_NUM_THREADS (4 by default), scaled
ipc_copy_nthreads_ == 2

\* sizeof(Key) (8 in the source), scaled; keys are integers of this width
sizeofKey == 2
sizeofInt == 4
\* the content of a byte that was never written
Uninit == -1

\* enum MessageTypes
kRendezvousStart == 0
kRendezvousReply == 1

W == "worker"
S == "server"
Nodes == {W, S}
Peer(n) == IF n = W THEN S ELSE W
Keys == 1 .. NumKeys
ByteVals == {0, 170}

\* the two endpoints of a node: "out" is endpoints_[peer], made by Connect;
\* "in" is the member of incoming_ made by OnConnectRequest
Sides == {"out", "in"}
Other(side) == IF side = "out" THEN "in" ELSE "out"

align_floor(v, align) == v - (v % align)
align_ceil(v, align) == align_floor(v + align - 1, align)

RECURSIVE Pow(_, _)
Pow(b, e) == IF e = 0 THEN 1 ELSE b * Pow(b, e - 1)

\* the bytes of an integer in memory (little endian), as CreateFunctionalSarray copies them
BytesOf(v, n) == [i \in 1 .. n |-> (v \div Pow(256, i - 1)) % 256]

RECURSIVE DecodeFrom(_, _, _, _)
DecodeFrom(keys, i, key, coef) ==
    IF i > Len(keys) THEN key
    ELSE DecodeFrom(keys, i + 1, (key + coef * keys[i]) % Pow(256, sizeofKey),
                    (coef * 256) % Pow(256, sizeofKey))

\* DecodeKey: key += coef * byte, coef *= 256, in the arithmetic of a Key
DecodeKey(keys) == DecodeFrom(keys, 1, 0, 1)

RECURSIVE SumSeq(_)
SumSeq(q) == IF q = << >> THEN 0 ELSE Head(q) + SumSeq(Tail(q))

\* an SArray<char>: a data pointer and a size (no ownership is modelled)
SArray(ptr, size) == [ptr |-> ptr, size |-> size]
EmptySArray == SArray(NULL, 0)

\* the arrays the kv layer builds: they are immutable, so their content is
\* named by the pointer itself.  A pointer is <<region, id, offset>>.
KeysPtr(k) == <<"keys", k, 0>>
LensPtr(len) == <<"lens", len, 0>>
\* the application's value buffer for key k
BufPtr(k) == <<"buf", k, 0>>
\* the shared-memory region GetSharedMemory returns for key k
ShmPtr(k) == <<"shm", k, 0>>
\* pointer arithmetic: ptr + off
PtrAdd(ptr, off) == <<ptr[1], ptr[2], ptr[3] + off>>

\* IsValidPushpull: neither a control nor a simple-app message
IsValidPushpull(msg) ==
    IF msg.meta.control THEN FALSE
    ELSE IF msg.meta.simple_app THEN FALSE
    ELSE TRUE

\* Van::GetPackMetaLen: the fixed part plus one entry per data field; it does
\* not depend on key, addr, val_len or option
GetPackMetaLen(meta) == kRawMetaLen + meta.ndata * kDataTypeLen

\* Van::PackMeta: every field of the Meta except sender and recver, which
\* RecvMsg fills in from the endpoint
PackMeta(meta) ==
    <<"packed", [key |-> meta.key, request |-> meta.request, push |-> meta.push,
                 val_len |-> meta.val_len, addr |-> meta.addr, option |-> meta.option,
                 control |-> meta.control, simple_app |-> meta.simple_app,
                 ndata |-> meta.ndata, ts |-> meta.ts]>>

\* Van::UnpackMeta into a Meta whose sender and recver are already set
UnpackMeta(buf, meta) ==
    [sender |-> meta.sender, recver |-> meta.recver,
     key |-> buf[2].key, request |-> buf[2].request, push |-> buf[2].push,
     val_len |-> buf[2].val_len, addr |-> buf[2].addr, option |-> buf[2].option,
     control |-> buf[2].control, simple_app |-> buf[2].simple_app,
     ndata |-> buf[2].ndata, ts |-> buf[2].ts]

\* a fresh Meta as the kv layer fills it before SendMsg
NewMeta(sender, recver, key, request, push, control, ndata, ts) ==
    [sender |-> sender, recver |-> recver, key |-> key, request |-> request,
     push |-> push, val_len |-> 0, addr |-> NULL, option |-> NULL,
     control |-> control, simple_app |-> FALSE, ndata |-> ndata, ts |-> ts]

\* the key ibv_reg_mr gives a registered region, and the keys of the two mempools
RkeyOf(ptr) == <<"rkey", ptr>>
MempoolKey(pool) == <<"rkey", pool>>

(***************************************************************************)
(*                     STATE OF A NODE AND ITS MEMORY                      *)
(***************************************************************************)

\* the first len bytes of a byte sequence; what lies behind it was never written
Pad(bytes, len) == [i \in 1 .. len |-> IF i <= Len(bytes) THEN bytes[i] ELSE Uninit]

\* overwrite bytes [off, off + Len(src)) of a buffer, staying inside it
Overlay(buf, off, src) ==
    [i \in 1 .. Len(buf) |->
        IF i > off /\ i <= off + Len(src) THEN src[i - off] ELSE buf[i]]

\* the contexts of an endpoint
CtxQueue(type, n) == [i \in 1 .. n |-> <<type, i>>]
SendCtx == {<<"start", i>> : i \in 1 .. kStartDepth}
              \cup {<<"reply", i>> : i \in 1 .. kReplyDepth}
              \cup {<<"write", i>> : i \in 1 .. kWriteDepth}

\* the mempool a transport was constructed with: Connect passes send_mempool_,
\* OnConnectRequest passes recv_mempool_
MempoolOf(side) == IF side = "out" THEN "send" ELSE "recv"

\* Endpoint::Init and the transport constructor: every send context is in its
\* free list, every receive context is posted, nothing is registered
EndpointInit(kind, async) ==
    [status             |-> "CONNECTED",
     transport          |-> kind,
     enable_async_copy_ |-> async,
     mem_mr_map_        |-> << >>,
     qp_error           |-> FALSE,
     free_start_ctx     |-> CtxQueue("start", kStartDepth),
     free_reply_ctx     |-> CtxQueue("reply", kReplyDepth),
     free_write_ctx     |-> CtxQueue("write", kWriteDepth),
     ctxbuf             |-> [c \in SendCtx |-> NULL],
     rxbuf              |-> [i \in 1 .. kRxDepth |-> NULL],
     rq                 |-> [i \in 1 .. kRxDepth |-> i],
     sq                 |-> << >>,
     async_copy_queue_  |-> [i \in 0 .. (ipc_copy_nthreads_ - 1) |-> << >>],
     cpy_counter_       |-> 0]

KeyPeer == Keys \X Nodes

\* an RDMAVan after Start, Bind and Connect to its peer
VanInit(n, kind, async) ==
    [my_node_         |-> n,
     is_server_       |-> (n = S),
     fatal            |-> FALSE,
     stuck            |-> FALSE,
     ep               |-> [side \in Sides |-> EndpointInit(kind, async)],
     cq               |-> << >>,
     push_addr_       |-> [kr \in KeyPeer |-> NULL],
     pull_addr_       |-> [kr \in KeyPeer |-> NULL],
     msgbuf_cache_    |-> << >>,
     tensor_info_map_ |-> [kr \in KeyPeer |-> NULL],
     addr_pool_       |-> AddressPoolNew,
     recv_buffers_    |-> << >>,
     msgbufs          |-> << >>,
     nmsgbuf          |-> 0,
     bufctx           |-> << >>,
     recvmem          |-> << >>,
     nbufctx          |-> 0,
     appmem           |-> [k \in Keys |-> [i \in 1 .. MaxValLen |-> 0]],
     stat             |-> [sendmsg |-> 0, start |-> 0, sig_send |-> 0, sig_write |-> 0,
                           cached |-> 0]]

\* a heap is a function from object ids to objects
HeapPut(heap, id, obj) == [x \in (DOMAIN heap) \cup {id} |-> IF x = id THEN obj ELSE heap[x]]
HeapDel(heap, id) == [x \in (DOMAIN heap) \ {id} |-> heap[x]]

\* the bytes the local memory holds at [ptr, ptr + len)
ReadMem(v, sh, ptr, len) ==
    IF len = 0 THEN << >>
    ELSE IF ptr = NULL THEN Pad(<< >>, len)
    ELSE IF ptr[1] = "keys" THEN Pad(BytesOf(ptr[2], sizeofKey), len)
    ELSE IF ptr[1] = "lens" THEN Pad(BytesOf(ptr[2], sizeofInt), len)
    ELSE IF ptr[1] = "buf" THEN Pad(v.appmem[ptr[2]], len)
    ELSE IF ptr[1] = "shm" THEN Pad(sh[ptr[2]], len)
    ELSE IF ptr[1] = "land" /\ ptr[2] \in DOMAIN v.recvmem
              /\ v.recvmem[ptr[2]].val.off = ptr[3]
         THEN Pad(v.recvmem[ptr[2]].val.bytes, len)
    ELSE Pad(<< >>, len)

\* whether [ptr, ptr + len) lies in a memory region some transport of the node registered
Registered(v, ptr, len) ==
    \E side \in Sides :
        /\ <<ptr[1], ptr[2], 0>> \in DOMAIN v.ep[side].mem_mr_map_
        /\ ptr[3] + len <= v.ep[side].mem_mr_map_[<<ptr[1], ptr[2], 0>>]

\* a remote RDMA write of bytes to (raddr, rkey) of node v: the result is
\* whether the access was allowed, and the memory afterwards
WriteMem(v, sh, raddr, rkey, bytes) ==
    IF raddr # NULL /\ raddr[1] = "land" /\ rkey = MempoolKey("recv")
    THEN [ok |-> TRUE, sh |-> sh,
          v  |-> IF raddr[2] \in DOMAIN v.recvmem
                 THEN [v EXCEPT !.recvmem[raddr[2]].val =
                                    IF @.off = raddr[3]
                                    THEN [off |-> raddr[3],
                                          bytes |-> bytes \o SubSeq(@.bytes, Len(bytes) + 1,
                                                                    Len(@.bytes))]
                                    ELSE [off |-> raddr[3], bytes |-> bytes],
                                !.recvmem[raddr[2]].overrun =
                                    @ \/ raddr[3] + Len(bytes) > v.recvmem[raddr[2]].size]
                 ELSE v]
    ELSE IF raddr # NULL /\ raddr[1] = "buf" /\ rkey = RkeyOf(<<"buf", raddr[2], 0>>)
              /\ Registered(v, raddr, Len(bytes))
    THEN [ok |-> TRUE, sh |-> sh,
          v  |-> [v EXCEPT !.appmem[raddr[2]] = Overlay(@, raddr[3], bytes)]]
    ELSE IF raddr # NULL /\ raddr[1] = "shm" /\ rkey = RkeyOf(<<"shm", raddr[2], 0>>)
              /\ Registered(v, raddr, Len(bytes))
    THEN [ok |-> TRUE, v |-> v,
          sh |-> [sh EXCEPT ![raddr[2]] = Overlay(@, raddr[3], bytes)]]
    ELSE [ok |-> FALSE, v |-> v, sh |-> sh]

\* the meta write of a message: the packed Meta lands at the start of the area
WriteMeta(v, raddr, rkey, packed, len) ==
    IF raddr # NULL /\ raddr[1] = "land" /\ rkey = MempoolKey("recv")
    THEN [ok |-> TRUE,
          v  |-> IF raddr[2] \in DOMAIN v.recvmem
                 THEN [v EXCEPT !.recvmem[raddr[2]].meta = packed,
                                !.recvmem[raddr[2]].overrun =
                                    @ \/ raddr[3] + len > v.recvmem[raddr[2]].size]
                 ELSE v]
    ELSE [ok |-> FALSE, v |-> v]

(***************************************************************************)
(*                  RDMATransport AND IPCTransport                         *)
(***************************************************************************)
MsgBufPtr(id) == <<"mb", id, 0>>

\* a send work request as ibv_post_send queues it.  src is the sge address,
\* read when the adapter executes the request
SendWR(opcode, wr_id, imm_data, signaled, src, len, remote_addr, rkey) ==
    [opcode |-> opcode, wr_id |-> wr_id, imm_data |-> imm_data, signaled |-> signaled,
     src |-> src, len |-> len, remote_addr |-> remote_addr, rkey |-> rkey, done |-> FALSE]

\* RDMATransport::RegisterMemory: register every non-empty array whose pointer
\* is not yet in the map, with the size it has in this message
RECURSIVE RegisterFrom(_, _, _)
RegisterFrom(map, data, i) ==
    IF i > Len(data) THEN map
    ELSE IF data[i].size = 0 \/ data[i].ptr \in DOMAIN map THEN RegisterFrom(map, data, i + 1)
    ELSE RegisterFrom(HeapPut(map, data[i].ptr, data[i].size), data, i + 1)

RegisterMemory(e, msg) == [e EXCEPT !.mem_mr_map_ = RegisterFrom(@, msg.data, 1)]

\* RDMATransport::PrepareData: for a push request, one (mr, size) per non-empty array
PrepareData(e, msg, msg_buf) ==
    IF ~(msg.meta.push /\ msg.meta.request) THEN msg_buf
    ELSE [msg_buf EXCEPT !.mrs = SelectSeq(msg_buf.data, LAMBDA sa : sa.size # 0)]

\* RDMATransport::AddMeta: the key of a request; address, length and rkey of
\* the values of a push request
AddMeta(e, msg) ==
    LET m1 == IF msg.meta.request
              THEN [msg.meta EXCEPT !.key =
                        DecodeKey(ReadMem(NULL, NULL, msg.data[1].ptr, msg.data[1].size))]
              ELSE msg.meta
    IN  IF msg.meta.push /\ msg.meta.request
        THEN IF Len(msg.data) # 3 THEN [fatal |-> TRUE, msg |-> msg]
             ELSE IF msg.data[2].ptr \notin DOMAIN e.mem_mr_map_
                  THEN [fatal |-> TRUE, msg |-> msg]
             ELSE [fatal |-> FALSE,
                   msg   |-> [msg EXCEPT !.meta = [m1 EXCEPT !.addr = msg.data[2].ptr,
                                                             !.val_len = msg.data[2].size,
                                                             !.option = RkeyOf(msg.data[2].ptr)]]]
        ELSE [fatal |-> FALSE, msg |-> [msg EXCEPT !.meta = m1]]

\* RDMATransport::RDMAWriteWithImm writing the values at the page boundary
\* before the end of the meta
RDMAWriteWithImm_Floor(e, mb, msg_buf, remote_addr, rkey, idx) ==
    LET reserved == Head(e.free_write_ctx)
        e1 == [e EXCEPT !.free_write_ctx = Tail(@)]
        mb1 == [msg_buf EXCEPT !.reserved_context = reserved]
        e2 == IF Len(mb1.mrs) = 3
              THEN [e1 EXCEPT !.sq = Append(@,
                       SendWR("RDMA_WRITE", NULL, 0, FALSE, mb1.mrs[2].ptr, mb1.mrs[2].size,
                              PtrAdd(remote_addr, align_floor(mb1.inline_len, pagesize_)), rkey))]
              ELSE e1
        e3 == [e2 EXCEPT !.ctxbuf[reserved] = MsgBufPtr(mb),
                         !.sq = Append(@,
                             SendWR("RDMA_WRITE_WITH_IMM", reserved, idx, TRUE, MsgBufPtr(mb),
                                    mb1.inline_len, remote_addr, rkey))]
    IN  IF Len(mb1.mrs) # 3 /\ Len(mb1.mrs) # 0
        THEN [fatal |-> TRUE, e |-> e1, msg_buf |-> mb1]
        ELSE [fatal |-> FALSE, e |-> e3, msg_buf |-> mb1]

\* RDMATransport::RDMAWriteWithImm, called with a free write context at hand:
\* pop it into reserved_context, post the unsignalled value write when there
\* are three registered arrays, then the signalled meta write with idx as
\* immediate
RDMAWriteWithImm(e, mb, msg_buf, remote_addr, rkey, idx) ==
    LET reserved == Head(e.free_write_ctx)
        e1 == [e EXCEPT !.free_write_ctx = Tail(@)]
        mb1 == [msg_buf EXCEPT !.reserved_context = reserved]
        e2 == IF Len(mb1.mrs) = 3
              THEN [e1 EXCEPT !.sq = Append(@,
                       SendWR("RDMA_WRITE", NULL, 0, FALSE, mb1.mrs[2].ptr, mb1.mrs[2].size,
                              PtrAdd(remote_addr, align_ceil(mb1.inline_len, pagesize_)), rkey))]
              ELSE e1
        e3 == [e2 EXCEPT !.ctxbuf[reserved] = MsgBufPtr(mb),
                         !.sq = Append(@,
                             SendWR("RDMA_WRITE_WITH_IMM", reserved, idx, TRUE, MsgBufPtr(mb),
                                    mb1.inline_len, remote_addr, rkey))]
    IN  IF Len(mb1.mrs) # 3 /\ Len(mb1.mrs) # 0
        THEN [fatal |-> TRUE, e |-> e1, msg_buf |-> mb1]
        ELSE [fatal |-> FALSE, e |-> e3, msg_buf |-> mb1]

\* RDMATransport::SendRendezvousBegin posting the RendezvousStart without
\* IBV_SEND_SIGNALED
SendRendezvousBegin_Unsignaled(e, msg, mb, msg_buf) ==
    LET reserved == Head(e.free_write_ctx)
        context == Head(e.free_start_ctx)
        req == [meta_len    |-> msg_buf.inline_len,
                origin_addr |-> MsgBufPtr(mb),
                data_num    |-> Len(msg_buf.data),
                data_len    |-> [i \in 1 .. Len(msg_buf.data) |-> msg.data[i].size]]
    IN  [msg_buf |-> [msg_buf EXCEPT !.reserved_context = reserved],
         e |-> [e EXCEPT !.free_write_ctx = Tail(@),
                         !.free_start_ctx = Tail(@),
                         !.ctxbuf[context] = req,
                         !.sq = Append(@, SendWR("SEND_WITH_IMM", context, kRendezvousStart,
                                                 FALSE, context, 0, NULL, NULL))]]

\* RDMATransport::SendRendezvousBegin, called with a free write and a free
\* start context at hand: pop both, fill the RendezvousStart, post it signalled
SendRendezvousBegin(e, msg, mb, msg_buf) ==
    LET reserved == Head(e.free_write_ctx)
        context == Head(e.free_start_ctx)
        req == [meta_len    |-> msg_buf.inline_len,
                origin_addr |-> MsgBufPtr(mb),
                data_num    |-> Len(msg_buf.data),
                data_len    |-> [i \in 1 .. Len(msg_buf.data) |-> msg.data[i].size]]
    IN  [msg_buf |-> [msg_buf EXCEPT !.reserved_context = reserved],
         e |-> [e EXCEPT !.free_write_ctx = Tail(@),
                         !.free_start_ctx = Tail(@),
                         !.ctxbuf[context] = req,
                         !.sq = Append(@, SendWR("SEND_WITH_IMM", context, kRendezvousStart,
                                                 TRUE, context, 0, NULL, NULL))]]

\* RDMATransport::Send
Send(e, mb, msg_buf, remote_tuple) ==
    RDMAWriteWithImm(e, mb, msg_buf, remote_tuple[1], remote_tuple[2], remote_tuple[3])

\* IPCTransport::GetSharedMemory: the region of the key
GetSharedMemory(key) == ShmPtr(key)

\* SendPushRequest: the RDMA transport sends as it is; the IPC transport
\* clears mrs first, so that no value write is posted
SendPushRequest(e, mb, msg_buf, remote_tuple) ==
    IF e.transport = "IPC"
    THEN Send(e, mb, [msg_buf EXCEPT !.mrs = << >>], remote_tuple)
    ELSE Send(e, mb, msg_buf, remote_tuple)

\* RDMATransport::SendPullResponse: an unsignalled write of data[1] to
\* (meta.addr, meta.option), then the meta write
RDMASendPullResponse(e, msg, mb, msg_buf, remote_tuple) ==
    IF msg_buf.data[2].ptr \notin DOMAIN e.mem_mr_map_
    THEN [fatal |-> TRUE, e |-> e, msg_buf |-> msg_buf]
    ELSE Send([e EXCEPT !.sq = Append(@,
                   SendWR("RDMA_WRITE", msg.meta.addr, 0, FALSE, msg_buf.data[2].ptr,
                          msg_buf.data[2].size, msg.meta.addr, msg.meta.option))],
              mb, msg_buf, remote_tuple)

\* IPCTransport::SendPullResponse: copy val_len bytes of data[1] into the
\* shared memory of the key and send the meta, or queue the copy for the
\* AsyncCopyThread
IPCSendPullResponse(e, sh, v, msg, mb, msg_buf, remote_tuple) ==
    IF Len(msg_buf.mrs) # 0 \/ msg.data[2].ptr = NULL
    THEN [fatal |-> TRUE, blocked |-> FALSE, e |-> e, msg_buf |-> msg_buf, sh |-> sh]
    ELSE LET shm_addr == GetSharedMemory(msg.meta.key) IN
         IF e.enable_async_copy_
         THEN [fatal |-> FALSE, blocked |-> FALSE, msg_buf |-> msg_buf, sh |-> sh,
               e |-> [e EXCEPT !.cpy_counter_ = @ + 1,
                               !.async_copy_queue_[e.cpy_counter_ % ipc_copy_nthreads_] =
                                   Append(@, [msg_buf |-> mb, remote_tuple |-> remote_tuple,
                                              dst |-> shm_addr, src |-> msg.data[2].ptr,
                                              len |-> msg.meta.val_len])]]
         ELSE LET sh1 == [sh EXCEPT ![shm_addr[2]] =
                             Overlay(@, 0, ReadMem(v, sh, msg.data[2].ptr, msg.meta.val_len))]
              IN  IF e.free_write_ctx = << >>
                  THEN [fatal |-> FALSE, blocked |-> TRUE, e |-> e, msg_buf |-> msg_buf,
                        sh |-> sh1]
                  ELSE LET r == Send(e, mb, msg_buf, remote_tuple) IN
                       [fatal |-> r.fatal, blocked |-> FALSE, e |-> r.e,
                        msg_buf |-> r.msg_buf, sh |-> sh1]

(***************************************************************************)
(*                               RDMAVan                                   *)
(***************************************************************************)
\* RDMAVan::PackWorkerTensorAddress without its test for a pull response
PackWorkerTensorAddress_Every(v, msg) ==
    LET kr == <<msg.meta.key, msg.meta.recver>> IN
    IF kr \notin KeyPeer THEN [fatal |-> TRUE, msg |-> msg]
    ELSE IF v.tensor_info_map_[kr] = NULL THEN [fatal |-> TRUE, msg |-> msg]
    ELSE [fatal |-> FALSE,
          msg   |-> [msg EXCEPT !.meta.val_len = v.tensor_info_map_[kr][1],
                                !.meta.addr = v.tensor_info_map_[kr][2],
                                !.meta.option = v.tensor_info_map_[kr][3]]]

\* RDMAVan::PackWorkerTensorAddress: a pull response gets length, address and
\* rkey of the worker's buffer from tensor_info_map_
PackWorkerTensorAddress(v, msg) ==
    IF msg.meta.push \/ msg.meta.request THEN [fatal |-> FALSE, msg |-> msg]
    ELSE LET kr == <<msg.meta.key, msg.meta.recver>> IN
         IF kr \notin KeyPeer THEN [fatal |-> TRUE, msg |-> msg]
         ELSE IF v.tensor_info_map_[kr] = NULL THEN [fatal |-> TRUE, msg |-> msg]
         ELSE [fatal |-> FALSE,
               msg   |-> [msg EXCEPT !.meta.val_len = v.tensor_info_map_[kr][1],
                                     !.meta.addr = v.tensor_info_map_[kr][2],
                                     !.meta.option = v.tensor_info_map_[kr][3]]]

\* RDMAVan::StoreWorkerTensorAddress without its checks
StoreWorkerTensorAddress_Overwrite(v, meta) ==
    [fatal |-> FALSE,
     v |-> [v EXCEPT !.tensor_info_map_[<<meta.key, meta.sender>>] =
                         <<meta.val_len, meta.addr, meta.option>>]]

\* RDMAVan::StoreWorkerTensorAddress: the first push request of (key, sender)
\* writes the entry, every later one is checked against it
StoreWorkerTensorAddress(v, meta) ==
    LET kr == <<meta.key, meta.sender>> IN
    IF v.tensor_info_map_[kr] = NULL
    THEN [fatal |-> FALSE,
          v |-> [v EXCEPT !.tensor_info_map_[kr] = <<meta.val_len, meta.addr, meta.option>>]]
    ELSE IF meta.val_len # v.tensor_info_map_[kr][1] THEN [fatal |-> TRUE, v |-> v]
    ELSE IF meta.addr # v.tensor_info_map_[kr][2] THEN [fatal |-> TRUE, v |-> v]
    ELSE IF meta.option # v.tensor_info_map_[kr][3] THEN [fatal |-> TRUE, v |-> v]
    ELSE [fatal |-> FALSE, v |-> v]

\* RDMAVan::HasRemoteInfo without the address cache: every message is new
HasRemoteInfo_Never(v, mb, key, is_push, recver) ==
    [found |-> FALSE,
     v |-> [v EXCEPT !.msgbuf_cache_ = HeapPut(@, mb, <<key, is_push, recver>>)]]

\* RDMAVan::HasRemoteInfo: true when the cache of the direction has
\* (key, recver); otherwise remember the message buffer for the reply
HasRemoteInfo(v, mb, key, is_push, recver) ==
    IF is_push /\ v.push_addr_[<<key, recver>>] # NULL THEN [found |-> TRUE, v |-> v]
    ELSE IF ~is_push /\ v.pull_addr_[<<key, recver>>] # NULL THEN [found |-> TRUE, v |-> v]
    ELSE [found |-> FALSE,
          v |-> [v EXCEPT !.msgbuf_cache_ =
                     IF mb \in DOMAIN @ THEN @ ELSE HeapPut(@, mb, <<key, is_push, recver>>)]]

\* RDMAVan::StoreRemoteInfo: move the remembered (key, is_push, recver) of the
\* message buffer into the address cache; a control message has none
StoreRemoteInfo(v, mb, remote_addr, rkey, idx) ==
    IF mb \notin DOMAIN v.msgbuf_cache_ THEN v
    ELSE LET key == v.msgbuf_cache_[mb][1]
             is_push == v.msgbuf_cache_[mb][2]
             recver == v.msgbuf_cache_[mb][3]
             v1 == IF is_push
                   THEN [v EXCEPT !.push_addr_[<<key, recver>>] = <<remote_addr, rkey, idx>>]
                   ELSE [v EXCEPT !.pull_addr_[<<key, recver>>] = <<remote_addr, rkey, idx>>]
         IN  [v1 EXCEPT !.msgbuf_cache_ = HeapDel(@, mb)]

\* RDMAVan::GetRemoteInfo returns the entries of the key, whatever the
\* receiver; the tuple that is used is one of them
GetRemoteInfo(v, key, is_push) ==
    {t \in {(IF is_push THEN v.push_addr_ ELSE v.pull_addr_)[<<key, r>>] : r \in Nodes} :
        t # NULL}

\* AddressPool::GetAddress: the pointer stored under the index, which stays stored
GetAddress(pool, index) ==
    IF index \notin 0 .. kMaxEntries THEN [fatal |-> TRUE, ptr |-> NULL]
    ELSE IF pool.table[index] = NULL THEN [fatal |-> TRUE, ptr |-> NULL]
    ELSE [fatal |-> FALSE, ptr |-> pool.table[index]]

\* Endpoint::PostRecv posting the receive twice
PostRecv_Twice(e, ctx) == [e EXCEPT !.rq = Append(Append(@, ctx[2]), ctx[2])]

\* Endpoint::PostRecv
PostRecv(e, ctx) == [e EXCEPT !.rq = Append(@, ctx[2])]

\* RDMAVan::ReleaseWorkRequestContext that does not post a receive context again
ReleaseWorkRequestContext_NoPostRecv(e, context) ==
    IF context[1] = "start" THEN [e EXCEPT !.free_start_ctx = Append(@, context)]
    ELSE IF context[1] = "reply" THEN [e EXCEPT !.free_reply_ctx = Append(@, context)]
    ELSE IF context[1] = "write" THEN [e EXCEPT !.free_write_ctx = Append(@, context)]
    ELSE e

\* RDMAVan::ReleaseWorkRequestContext
ReleaseWorkRequestContext(e, context) ==
    IF context[1] = "start" THEN [e EXCEPT !.free_start_ctx = Append(@, context)]
    ELSE IF context[1] = "reply" THEN [e EXCEPT !.free_reply_ctx = Append(@, context)]
    ELSE IF context[1] = "write" THEN [e EXCEPT !.free_write_ctx = Append(@, context)]
    ELSE PostRecv(e, context)

\* SimpleMempool::Alloc: the size of the chunk it hands out, rounded up to the
\* page size
Alloc(size) == align_ceil(size, pagesize_)

\* the landing area SendRendezvousReply allocates for a RendezvousStart: the
\* server takes room for the meta and every data field, a worker for the
\* meta only
LandingSize(is_server_, req) ==
    LET len == req.meta_len + SumSeq(req.data_len)
    IN  Alloc(IF is_server_ THEN kMaxMetaBound + len ELSE kMaxMetaBound + req.meta_len)

\* RDMATransport::SendRendezvousReply, run by the poller for a RendezvousStart:
\* a new BufferContext and landing area, a reply context (the poller waits
\* when there is none), an index from the address pool, the reply posted signalled
SendRendezvousReply(v, side, req) ==
    LET id == v.nbufctx + 1
        size == LandingSize(v.is_server_, req)
        buffer == <<"land", id, 0>>
        buf_ctx == [buffer |-> buffer, meta_len |-> req.meta_len, data_num |-> req.data_num,
                    data_len |-> req.data_len]
        v1 == [v EXCEPT !.nbufctx = id,
                        !.bufctx = HeapPut(@, id, buf_ctx),
                        !.recvmem = HeapPut(@, id, [size |-> size, meta |-> NULL,
                                                    val |-> [off |-> 0, bytes |-> << >>],
                                                    overrun |-> FALSE])]
        e == v1.ep[side]
    IN  IF e.free_reply_ctx = << >> THEN {[v1 EXCEPT !.stuck = TRUE]}
        ELSE LET reply_ctx == Head(e.free_reply_ctx) IN
             {IF r.fatal
              THEN [v1 EXCEPT !.fatal = TRUE, !.addr_pool_ = r.pool]
              ELSE [v1 EXCEPT
                      !.addr_pool_ = r.pool,
                      !.ep[side] =
                          [e EXCEPT !.free_reply_ctx = Tail(@),
                                    !.ctxbuf[reply_ctx] =
                                        [addr |-> buffer, rkey |-> MempoolKey(MempoolOf(side)),
                                         origin_addr |-> req.origin_addr, idx |-> r.idx],
                                    !.sq = Append(@, SendWR("SEND_WITH_IMM", reply_ctx,
                                                            kRendezvousReply, TRUE, reply_ctx,
                                                            0, NULL, NULL))]]
                 : r \in StoreAddress(v1.addr_pool_, <<"bc", id, 0>>)}

\* CreateFunctionalSarray of meta.key and of meta.val_len: a copy of their bytes
KeysOfMeta(meta) == SArray(KeysPtr(meta.key), sizeofKey)
LensOfMeta(meta) == SArray(LensPtr(meta.val_len), sizeofInt)

\* RDMATransport::RecvPushRequest reading the values right behind the meta
RecvPushRequest_Unaligned(e, msg, buffer_ctx, meta_len) ==
    [fatal |-> FALSE,
     msg |-> [msg EXCEPT !.data = <<KeysOfMeta(msg.meta),
                                    SArray(PtrAdd(buffer_ctx.buffer, meta_len),
                                           buffer_ctx.data_len[2]),
                                    LensOfMeta(msg.meta)>>]]

\* RecvPushRequest: the RDMA transport takes the values from the landing area
\* at the page-aligned offset behind the meta, with the length the rendezvous
\* announced; the IPC transport takes meta.val_len bytes of the shared memory
RecvPushRequest(e, msg, buffer_ctx, meta_len) ==
    IF ~(msg.meta.push /\ msg.meta.request) THEN [fatal |-> TRUE, msg |-> msg]
    ELSE IF e.transport = "IPC"
    THEN [fatal |-> FALSE,
          msg |-> [msg EXCEPT !.data = <<KeysOfMeta(msg.meta),
                                         SArray(GetSharedMemory(msg.meta.key), msg.meta.val_len),
                                         LensOfMeta(msg.meta)>>]]
    ELSE IF buffer_ctx.data_num # 3 THEN [fatal |-> TRUE, msg |-> msg]
    ELSE [fatal |-> FALSE,
          msg |-> [msg EXCEPT !.data =
                     <<KeysOfMeta(msg.meta),
                       SArray(PtrAdd(buffer_ctx.buffer, align_ceil(meta_len, pagesize_)),
                              buffer_ctx.data_len[2]),
                       LensOfMeta(msg.meta)>>]]

\* RDMATransport::RecvPullRequest: the key and an empty values array
RecvPullRequest(e, msg, buffer_ctx, meta_len) ==
    [fatal |-> FALSE, msg |-> [msg EXCEPT !.data = <<KeysOfMeta(msg.meta), EmptySArray>>]]

\* RDMATransport::RecvPushResponse: no data
RecvPushResponse(e, msg, buffer_ctx, meta_len) ==
    IF buffer_ctx.data_num # 0 THEN [fatal |-> TRUE, msg |-> msg]
    ELSE [fatal |-> FALSE, msg |-> msg]

\* RDMATransport::RecvPullResponse: the values are meta.val_len bytes at
\* meta.addr, the worker's own buffer
RecvPullResponse(e, msg, buffer_ctx, meta_len) ==
    [fatal |-> FALSE,
     msg |-> [msg EXCEPT !.data = <<KeysOfMeta(msg.meta),
                                    SArray(msg.meta.addr, msg.meta.val_len),
                                    LensOfMeta(msg.meta)>>]]

\* RDMAVan::RecvMsg that gives the landing area and its context back for every
\* message, not only for a control message
RecvMsg_FreeAll(v) ==
    LET notification == Head(v.recv_buffers_)
        e == v.ep[notification.endpoint]
        bc == notification.buf_ctx[2]
        buffer_ctx == v.bufctx[bc]
        v0 == [v EXCEPT !.recv_buffers_ = Tail(@),
                        !.recvmem = HeapDel(@, buffer_ctx.buffer[2]),
                        !.bufctx = HeapDel(@, bc)]
        meta == UnpackMeta(v.recvmem[buffer_ctx.buffer[2]].meta,
                           [sender |-> Peer(v.my_node_), recver |-> v.my_node_])
        meta_len == GetPackMetaLen(meta)
        msg == [meta |-> meta, data |-> << >>]
        r == IF meta.push /\ meta.request THEN RecvPushRequest(e, msg, buffer_ctx, meta_len)
             ELSE IF ~meta.push /\ meta.request
                  THEN RecvPullRequest(e, msg, buffer_ctx, meta_len)
             ELSE IF meta.push /\ ~meta.request
                  THEN RecvPushResponse(e, msg, buffer_ctx, meta_len)
             ELSE RecvPullResponse(e, msg, buffer_ctx, meta_len)
    IN  IF ~IsValidPushpull(msg)
        THEN [fatal |-> FALSE, msg |-> msg,
              v |-> [v0 EXCEPT !.recvmem = HeapDel(@, buffer_ctx.buffer[2]),
                               !.bufctx = HeapDel(@, bc)]]
        ELSE IF r.fatal THEN [fatal |-> TRUE, v |-> v0, msg |-> r.msg]
        ELSE IF meta.push /\ meta.request
        THEN LET st == StoreWorkerTensorAddress(v0, r.msg.meta) IN
             [fatal |-> st.fatal, v |-> st.v, msg |-> r.msg]
        ELSE [fatal |-> FALSE, v |-> v0, msg |-> r.msg]

\* RDMAVan::RecvMsg: pop a notification, unpack the meta of its landing area;
\* a control message gives the area and its context back, a data message is
\* rebuilt by the transport, and a push request also records the worker's buffer
RecvMsg(v) ==
    LET notification == Head(v.recv_buffers_)
        e == v.ep[notification.endpoint]
        bc == notification.buf_ctx[2]
        buffer_ctx == v.bufctx[bc]
        v0 == [v EXCEPT !.recv_buffers_ = Tail(@)]
        meta == UnpackMeta(v.recvmem[buffer_ctx.buffer[2]].meta,
                           [sender |-> Peer(v.my_node_), recver |-> v.my_node_])
        meta_len == GetPackMetaLen(meta)
        msg == [meta |-> meta, data |-> << >>]
        r == IF meta.push /\ meta.request THEN RecvPushRequest(e, msg, buffer_ctx, meta_len)
             ELSE IF ~meta.push /\ meta.request
                  THEN RecvPullRequest(e, msg, buffer_ctx, meta_len)
             ELSE IF meta.push /\ ~meta.request
                  THEN RecvPushResponse(e, msg, buffer_ctx, meta_len)
             ELSE RecvPullResponse(e, msg, buffer_ctx, meta_len)
    IN  IF ~IsValidPushpull(msg)
        THEN [fatal |-> FALSE, msg |-> msg,
              v |-> [v0 EXCEPT !.recvmem = HeapDel(@, buffer_ctx.buffer[2]),
                               !.bufctx = HeapDel(@, bc)]]
        ELSE IF r.fatal THEN [fatal |-> TRUE, v |-> v0, msg |-> r.msg]
        ELSE IF meta.push /\ meta.request
        THEN LET st == StoreWorkerTensorAddress(v0, r.msg.meta) IN
             [fatal |-> st.fatal, v |-> st.v, msg |-> r.msg]
        ELSE [fatal |-> FALSE, v |-> v0, msg |-> r.msg]

\* RDMAVan::SendMsg with a pending-table entry for every message, valid
\* push/pull or not
SendMsg_PendingAll(v, sh, msg) ==
    LET e1 == RegisterMemory(v.ep["out"], msg)
        meta_len == GetPackMetaLen(msg.meta)
        mb == v.nmsgbuf + 1
        valid == IsValidPushpull(msg)
        am == IF valid THEN AddMeta(e1, msg) ELSE [fatal |-> FALSE, msg |-> msg]
        pw == IF valid /\ ~am.fatal THEN PackWorkerTensorAddress(v, am.msg) ELSE am
        msg2 == pw.msg
        msg_buf == [inline_len |-> meta_len, inline_buf |-> PackMeta(msg2.meta),
                    reserved_context |-> NULL, data |-> msg.data, mrs |-> << >>]
        v1 == [v EXCEPT !.ep["out"] = e1, !.nmsgbuf = mb, !.stat.sendmsg = @ + 1]
        Fatal(x) == [v |-> [x EXCEPT !.fatal = TRUE], sh |-> sh, blocked |-> FALSE]
        Blocked(x) == [v |-> x, sh |-> sh, blocked |-> TRUE]
        Done(x, e, buf, s) ==
            [v |-> [x EXCEPT !.ep["out"] = e, !.msgbufs = HeapPut(@, mb, buf)],
             sh |-> s, blocked |-> FALSE]
        Begin(x, buf) ==
            IF x.ep["out"].free_write_ctx = << >> \/ x.ep["out"].free_start_ctx = << >>
            THEN Blocked(x)
            ELSE LET r == SendRendezvousBegin(x.ep["out"], msg2, mb, buf) IN
                 Done([x EXCEPT !.stat.start = @ + 1], r.e, r.msg_buf, sh)
        Write(x, r) == IF r.fatal THEN Fatal(x) ELSE Done(x, r.e, r.msg_buf, sh)
        Cached(x, buf, rt) ==
            LET e == x.ep["out"] IN
            IF ~msg2.meta.push /\ ~msg2.meta.request
            THEN IF e.transport = "IPC"
                 THEN LET r == IPCSendPullResponse(e, sh, x, msg2, mb, buf, rt) IN
                      IF r.fatal THEN Fatal(x)
                      ELSE IF r.blocked THEN Blocked(x)
                      ELSE Done(x, r.e, r.msg_buf, r.sh)
                 ELSE IF buf.data[2].ptr \in DOMAIN e.mem_mr_map_ /\ e.free_write_ctx = << >>
                      THEN Blocked(x)
                      ELSE Write(x, RDMASendPullResponse(e, msg2, mb, buf, rt))
            ELSE IF e.free_write_ctx = << >> THEN Blocked(x)
            ELSE IF msg2.meta.push /\ msg2.meta.request
                 THEN Write(x, SendPushRequest(e, mb, buf, rt))
            ELSE Write(x, Send(e, mb, buf, rt))
    IN  IF meta_len = 0 \/ am.fatal \/ pw.fatal THEN {Fatal(v1)}
        ELSE IF ~valid
        THEN {Begin([v1 EXCEPT !.msgbuf_cache_ =
                         HeapPut(@, mb, <<msg2.meta.key, msg2.meta.push, msg2.meta.recver>>)],
                    msg_buf)}
        ELSE LET buf == PrepareData(e1, msg2, msg_buf)
                 hr == HasRemoteInfo(v1, mb, msg2.meta.key, msg2.meta.push, msg2.meta.recver)
             IN  IF ~hr.found THEN {Begin(hr.v, buf)}
                 ELSE {Cached([v1 EXCEPT !.stat.cached = @ + 1], buf, rt) :
                          rt \in GetRemoteInfo(v1, msg2.meta.key, msg2.meta.push)}

\* RDMAVan::SendMsg.  The result is the set of outcomes: the node and the
\* shared memory afterwards, or blocked when the call waits for a free context
SendMsg(v, sh, msg) ==
    LET e1 == RegisterMemory(v.ep["out"], msg)
        meta_len == GetPackMetaLen(msg.meta)
        mb == v.nmsgbuf + 1
        valid == IsValidPushpull(msg)
        am == IF valid THEN AddMeta(e1, msg) ELSE [fatal |-> FALSE, msg |-> msg]
        pw == IF valid /\ ~am.fatal THEN PackWorkerTensorAddress(v, am.msg) ELSE am
        msg2 == pw.msg
        msg_buf == [inline_len |-> meta_len, inline_buf |-> PackMeta(msg2.meta),
                    reserved_context |-> NULL, data |-> msg.data, mrs |-> << >>]
        v1 == [v EXCEPT !.ep["out"] = e1, !.nmsgbuf = mb, !.stat.sendmsg = @ + 1]
        Fatal(x) == [v |-> [x EXCEPT !.fatal = TRUE], sh |-> sh, blocked |-> FALSE]
        Blocked(x) == [v |-> x, sh |-> sh, blocked |-> TRUE]
        Done(x, e, buf, s) ==
            [v |-> [x EXCEPT !.ep["out"] = e, !.msgbufs = HeapPut(@, mb, buf)],
             sh |-> s, blocked |-> FALSE]
        Begin(x, buf) ==
            IF x.ep["out"].free_write_ctx = << >> \/ x.ep["out"].free_start_ctx = << >>
            THEN Blocked(x)
            ELSE LET r == SendRendezvousBegin(x.ep["out"], msg2, mb, buf) IN
                 Done([x EXCEPT !.stat.start = @ + 1], r.e, r.msg_buf, sh)
        Write(x, r) == IF r.fatal THEN Fatal(x) ELSE Done(x, r.e, r.msg_buf, sh)
        Cached(x, buf, rt) ==
            LET e == x.ep["out"] IN
            IF ~msg2.meta.push /\ ~msg2.meta.request
            THEN IF e.transport = "IPC"
                 THEN LET r == IPCSendPullResponse(e, sh, x, msg2, mb, buf, rt) IN
                      IF r.fatal THEN Fatal(x)
                      ELSE IF r.blocked THEN Blocked(x)
                      ELSE Done(x, r.e, r.msg_buf, r.sh)
                 ELSE IF buf.data[2].ptr \in DOMAIN e.mem_mr_map_ /\ e.free_write_ctx = << >>
                      THEN Blocked(x)
                      ELSE Write(x, RDMASendPullResponse(e, msg2, mb, buf, rt))
            ELSE IF e.free_write_ctx = << >> THEN Blocked(x)
            ELSE IF msg2.meta.push /\ msg2.meta.request
                 THEN Write(x, SendPushRequest(e, mb, buf, rt))
            ELSE Write(x, Send(e, mb, buf, rt))
    IN  IF meta_len = 0 \/ am.fatal \/ pw.fatal THEN {Fatal(v1)}
        ELSE IF ~valid THEN {Begin(v1, msg_buf)}
        ELSE LET buf == PrepareData(e1, msg2, msg_buf)
                 hr == HasRemoteInfo(v1, mb, msg2.meta.key, msg2.meta.push, msg2.meta.recver)
             IN  IF ~hr.found THEN {Begin(hr.v, buf)}
                 ELSE {Cached([v1 EXCEPT !.stat.cached = @ + 1], buf, rt) :
                          rt \in GetRemoteInfo(v1, msg2.meta.key, msg2.meta.push)}

\* the send queue after the completion of the work request of context was
\* polled: that request and the unsignalled ones before it are retired
Retire(sq, context) ==
    IF \E i \in 1 .. Len(sq) : sq[i].signaled /\ sq[i].wr_id = context
    THEN LET i == CHOOSE j \in 1 .. Len(sq) :
                      /\ sq[j].signaled /\ sq[j].wr_id = context
                      /\ \A h \in 1 .. (j - 1) : ~(sq[h].signaled /\ sq[h].wr_id = context)
         IN  SubSeq(sq, i + 1, Len(sq))
    ELSE sq

\* PollCQ dropping every completion without looking at it
PollCQ_Drop(v) == {[v EXCEPT !.cq = Tail(@)]}

\* one iteration of RDMAVan::PollCQ: the dispatch of the oldest completion
PollCQ(v) ==
    LET wc == Head(v.cq)
        v0 == [v EXCEPT !.cq = Tail(@)]
        side == wc.endpoint
        context == wc.wr_id
        e == v0.ep[side]
    IN  IF ~wc.ok THEN {[v0 EXCEPT !.fatal = TRUE]}
        ELSE IF wc.opcode = "SEND"
        THEN {[v0 EXCEPT !.ep[side] = ReleaseWorkRequestContext(
                                          [e EXCEPT !.sq = Retire(@, context)], context),
                         !.stat.sig_send = IF context[1] = "start" THEN @ + 1 ELSE @]}
        ELSE IF wc.opcode = "RDMA_WRITE"
        THEN {[v0 EXCEPT !.msgbufs = HeapDel(@, e.ctxbuf[context][2]),
                         !.ep[side] = ReleaseWorkRequestContext(
                                          [e EXCEPT !.sq = Retire(@, context)], context),
                         !.stat.sig_write = @ + 1]}
        ELSE IF wc.opcode = "RECV_RDMA_WITH_IMM"
        THEN LET ga == GetAddress(v0.addr_pool_, wc.imm_data) IN
             IF ga.fatal THEN {[v0 EXCEPT !.fatal = TRUE]}
             ELSE {[v0 EXCEPT !.recv_buffers_ =
                                  Append(@, [endpoint |-> side, buf_ctx |-> ga.ptr]),
                              !.ep[side] = ReleaseWorkRequestContext(e, context)]}
        ELSE IF wc.opcode # "RECV" THEN {[v0 EXCEPT !.fatal = TRUE]}
        ELSE IF wc.imm_data = kRendezvousStart
        THEN {IF x.fatal \/ x.stuck THEN x
              ELSE [x EXCEPT !.ep[side] = ReleaseWorkRequestContext(@, context)]
                 : x \in SendRendezvousReply(v0, side, e.rxbuf[context[2]])}
        ELSE IF wc.imm_data = kRendezvousReply
        THEN LET resp == e.rxbuf[context[2]]
                 mb == resp.origin_addr[2]
                 v1 == StoreRemoteInfo(v0, mb, resp.addr, resp.rkey, resp.idx)
             IN  IF mb \notin DOMAIN v1.msgbufs THEN {[v1 EXCEPT !.fatal = TRUE]}
                 ELSE IF e.free_write_ctx = << >> THEN {[v1 EXCEPT !.stuck = TRUE]}
                 ELSE LET r == RDMAWriteWithImm(e, mb, v1.msgbufs[mb], resp.addr, resp.rkey,
                                                resp.idx)
                      IN  IF r.fatal THEN {[v1 EXCEPT !.fatal = TRUE]}
                          ELSE {[v1 EXCEPT !.msgbufs[mb] = r.msg_buf,
                                           !.ep[side] =
                                               ReleaseWorkRequestContext(r.e, context)]}
        ELSE {[v0 EXCEPT !.fatal = TRUE]}

(***************************************************************************)
(*        THE KV LAYER, THE ADAPTER AND THE THREADS OF THE VAN             *)
(***************************************************************************)
\* the worker's value buffer of key k: a region of the shared memory when the
\* peer is local, its own memory otherwise
WBuf(k) == IF van[W].ep["out"].transport = "IPC" THEN ShmPtr(k) ELSE BufPtr(k)

\* what a call of SendMsg did, for the properties below
CallRecord(n, msg, key, out) ==
    [node    |-> n,
     valid   |-> IsValidPushpull(msg),
     push    |-> msg.meta.push,
     request |-> msg.meta.request,
     key     |-> key,
     zero    |-> IF Len(msg.data) >= 2 THEN msg.data[2].size = 0 ELSE FALSE,
     had     |-> <<key, msg.meta.push, msg.meta.recver>> \in app.rdvdone[n],
     posted  |-> [i \in 1 .. (Len(out.v.ep["out"].sq) - Len(van[n].ep["out"].sq)) |->
                     out.v.ep["out"].sq[Len(van[n].ep["out"].sq) + i].opcode],
     queued  |-> out.v.ep["out"].cpy_counter_ # van[n].ep["out"].cpy_counter_,
     fatal   |-> out.v.fatal]

ShmInit == [k \in Keys |-> [i \in 1 .. MaxValLen |-> 0]]

AppInit ==
             [pending   |-> [k \in Keys |-> << >>],
              nops      |-> 0,
              nctrl     |-> 0,
              nreconn   |-> 0,
              inbox     |-> [n \in Nodes |-> << >>],
              store     |-> [k \in Keys |-> -1],
              sentpush  |-> << >>,
              delivered |-> [k \in Keys |-> {}],
              answered  |-> << >>,
              rdvdone   |-> [n \in Nodes |-> {}],
              firstinfo |-> [kr \in KeyPeer |-> NULL],
              lastrecv  |-> [push_request |-> FALSE, kr |-> <<0, W>>, info |-> NULL,
                             fatal |-> FALSE],
              last      |-> [node |-> W, valid |-> FALSE, push |-> FALSE, request |-> FALSE,
                             key |-> 0, zero |-> FALSE, had |-> FALSE, posted |-> << >>,
                             queued |-> FALSE, fatal |-> FALSE]]

Init ==
    /\ PoolInit
    /\ AuxIdle
    /\ \E kind \in {<<"RDMA", FALSE>>, <<"IPC", FALSE>>, <<"IPC", TRUE>>} :
          van = [n \in Nodes |-> VanInit(n, kind[1], kind[2])]
    /\ shm = ShmInit
    /\ app = AppInit

\* the worker's kv layer sends a push request of key k with values sa; as in
\* the benchmark's push-then-pull mode, it has waited for the response to its
\* last request of the key
WorkerPush(k, sa) ==
    LET ts == app.nops + 1
        msg == [meta |-> NewMeta(W, S, 0, TRUE, TRUE, FALSE, 3, ts),
                data |-> <<SArray(KeysPtr(k), sizeofKey), sa,
                           SArray(LensPtr(sa.size), sizeofInt)>>]
    IN  /\ ~van[W].fatal
        /\ app.nops < MaxOps
        /\ app.pending[k] = << >>
        /\ \E out \in SendMsg(van[W], shm, msg) :
              /\ ~out.blocked
              /\ van' = [van EXCEPT ![W] = out.v]
              /\ shm' = out.sh
              /\ app' = [app EXCEPT
                    !.nops = ts,
                    !.pending[k] = Append([i \in 1 .. Len(@) |-> [@[i] EXCEPT !.expect = {}]],
                                          [ts |-> ts, push |-> TRUE, expect |-> {}]),
                    !.sentpush = HeapPut(@, ts,
                                    [keys |-> ReadMem(van[W], shm, msg.data[1].ptr,
                                                      msg.data[1].size),
                                     vals |-> ReadMem(van[W], shm, sa.ptr, sa.size),
                                     lens |-> ReadMem(van[W], shm, msg.data[3].ptr,
                                                      msg.data[3].size)]),
                    !.last = CallRecord(W, msg, k, out)]
        /\ UNCHANGED <<apvars, auxvars>>

\* the worker's kv layer sends a pull request of key k, which it has pushed
\* before, as the benchmark does with every key
WorkerPull(k) ==
    LET ts == app.nops + 1
        msg == [meta |-> NewMeta(W, S, 0, TRUE, FALSE, FALSE, 2, ts),
                data |-> <<SArray(KeysPtr(k), sizeofKey), EmptySArray>>]
    IN  /\ ~van[W].fatal
        /\ app.nops < MaxOps
        /\ app.pending[k] = << >>
        /\ app.store[k] >= 0
        /\ \E out \in SendMsg(van[W], shm, msg) :
              /\ ~out.blocked
              /\ van' = [van EXCEPT ![W] = out.v]
              /\ shm' = out.sh
              /\ app' = [app EXCEPT
                    !.nops = ts,
                    !.pending[k] = Append(@, [ts |-> ts, push |-> FALSE,
                                              expect |-> IF @ = << >> THEN app.delivered[k]
                                                         ELSE {}]),
                    !.last = CallRecord(W, msg, k, out)]
        /\ UNCHANGED <<apvars, auxvars>>

\* the worker sends a control message
SendControl(max) ==
    LET msg == [meta |-> NewMeta(W, S, 0, TRUE, FALSE, TRUE, 0, 0), data |-> << >>] IN
    /\ ~van[W].fatal
    /\ app.nctrl < max
    /\ \E out \in SendMsg(van[W], shm, msg) :
          /\ ~out.blocked
          /\ van' = [van EXCEPT ![W] = out.v]
          /\ shm' = out.sh
          /\ app' = [app EXCEPT !.nctrl = @ + 1, !.last = CallRecord(W, msg, 0, out)]
    /\ UNCHANGED <<apvars, auxvars>>

WorkerControl == SendControl(MaxCtrl)

\* the worker's application fills its buffer of key k with byte b, when no
\* request of the key is in flight
WorkerWrite(k, b) ==
    /\ ~van[W].fatal
    /\ app.nops < MaxOps
    /\ app.pending[k] = << >>
    /\ ReadMem(van[W], shm, WBuf(k), MaxValLen) # [i \in 1 .. MaxValLen |-> b]
    /\ IF WBuf(k)[1] = "shm"
       THEN /\ shm' = [shm EXCEPT ![k] = [i \in 1 .. MaxValLen |-> b]]
            /\ UNCHANGED van
       ELSE /\ van' = [van EXCEPT ![W].appmem[k] = [i \in 1 .. MaxValLen |-> b]]
            /\ UNCHANGED shm
    /\ UNCHANGED <<app, apvars, auxvars>>

\* a work completion
WC(side, opcode, wr_id, imm_data, ok) ==
    [endpoint |-> side, opcode |-> opcode, wr_id |-> wr_id, imm_data |-> imm_data, ok |-> ok]

\* the adapter executes the oldest pending send request of an endpoint of node
\* n: a send or a write with immediate consumes a posted receive of the peer
\* and completes there; a signalled request completes at the sender; a
\* request that touches memory outside a registered region completes in
\* error and stops the queue pair
Deliver(n, side) ==
    LET p == Peer(n)
        e == van[n].ep[side]
        pside == Other(side)
        pe == van[p].ep[pside]
        pend == {j \in 1 .. Len(e.sq) : ~e.sq[j].done}
        i == CHOOSE j \in pend : \A h \in pend : j <= h
        w == e.sq[i]
        Error == /\ van' = [van EXCEPT ![n].ep[side].qp_error = TRUE,
                                       ![n].ep[side].sq[i].done = TRUE,
                                       ![n].cq = Append(@, WC(side, w.opcode, w.wr_id, 0, FALSE))]
                 /\ UNCHANGED shm
    IN  /\ ~van[n].fatal /\ ~van[p].fatal /\ ~e.qp_error
        /\ e.status = "CONNECTED"
        /\ pend # {}
        /\ IF w.opcode = "SEND_WITH_IMM"
           THEN /\ pe.rq # << >>
                /\ van' = [van EXCEPT
                      ![n].ep[side].sq[i].done = TRUE,
                      ![n].cq = IF w.signaled
                                THEN Append(@, WC(side, "SEND", w.wr_id, 0, TRUE)) ELSE @,
                      ![p].ep[pside].rq = Tail(@),
                      ![p].ep[pside].rxbuf[Head(pe.rq)] = e.ctxbuf[w.src],
                      ![p].cq = Append(@, WC(pside, "RECV", <<"rx", Head(pe.rq)>>,
                                             w.imm_data, TRUE))]
                /\ UNCHANGED shm
           ELSE IF w.opcode = "RDMA_WRITE"
           THEN IF ~Registered(van[n], w.src, w.len) THEN Error
                ELSE LET r == WriteMem(van[p], shm, w.remote_addr, w.rkey,
                                       ReadMem(van[n], shm, w.src, w.len))
                     IN  IF ~r.ok THEN Error
                         ELSE /\ van' = [[van EXCEPT ![p] = r.v] EXCEPT
                                            ![n].ep[side].sq[i].done = TRUE]
                              /\ shm' = r.sh
           ELSE LET r == WriteMeta(van[p], w.remote_addr, w.rkey,
                                   van[n].msgbufs[w.src[2]].inline_buf, w.len)
                IN  IF ~r.ok THEN Error
                    ELSE /\ pe.rq # << >>
                         /\ van' = [[van EXCEPT ![p] = r.v] EXCEPT
                               ![n].ep[side].sq[i].done = TRUE,
                               ![n].cq = IF w.signaled
                                         THEN Append(@, WC(side, "RDMA_WRITE", w.wr_id, 0,
                                                           TRUE))
                                         ELSE @,
                               ![p].ep[pside].rq = Tail(@),
                               ![p].cq = Append(@, WC(pside, "RECV_RDMA_WITH_IMM",
                                                      <<"rx", Head(pe.rq)>>, w.imm_data, TRUE))]
                         /\ UNCHANGED shm
        /\ UNCHANGED <<app, apvars, auxvars>>

\* the polling thread of node n dispatches one completion
Poll(n) ==
    LET wc == Head(van[n].cq)
        isReply == wc.ok /\ wc.opcode = "RECV" /\ wc.imm_data = kRendezvousReply
        mb == van[n].ep[wc.endpoint].rxbuf[wc.wr_id[2]].origin_addr[2]
    IN  /\ ~van[n].fatal /\ ~van[n].stuck
        /\ van[n].cq # << >>
        /\ \E x \in PollCQ(van[n]) : van' = [van EXCEPT ![n] = x]
        /\ app' = IF isReply /\ mb \in DOMAIN van[n].msgbuf_cache_
                  THEN [app EXCEPT !.rdvdone[n] = @ \cup {van[n].msgbuf_cache_[mb]}]
                  ELSE app
        /\ UNCHANGED <<shm, apvars, auxvars>>

\* the receiving thread of node n calls RecvMsg and hands the message to the
\* kv layer
Receive(n) ==
    LET r == RecvMsg(van[n])
        m == r.msg.meta
        isPush == IsValidPushpull(r.msg) /\ m.push /\ m.request
        info == <<m.val_len, m.addr, m.option>>
    IN  /\ ~van[n].fatal
        /\ van[n].recv_buffers_ # << >>
        /\ van' = [van EXCEPT ![n] = [r.v EXCEPT !.fatal = r.fatal]]
        /\ app' = [app EXCEPT
              !.inbox[n] = IF r.fatal THEN @ ELSE Append(@, r.msg),
              !.delivered = IF isPush /\ ~r.fatal
                            THEN [@ EXCEPT ![m.key] = {app.sentpush[m.ts].vals}]
                            ELSE @,
              !.firstinfo = IF isPush /\ ~r.fatal /\ @[<<m.key, m.sender>>] = NULL
                            THEN [@ EXCEPT ![<<m.key, m.sender>>] = info]
                            ELSE @,
              !.lastrecv = [push_request |-> isPush, kr |-> <<m.key, m.sender>>,
                            info |-> info, fatal |-> r.fatal]]
        /\ UNCHANGED <<shm, apvars, auxvars>>

\* the values the server's handler answers a pull request with: what it
\* stored for the key ("store"), none of it ("none"), or an array without
\* storage ("null")
Answer(k, ans) ==
    IF ans = "store" THEN SArray(BufPtr(k), app.store[k])
    ELSE IF ans = "none" THEN SArray(BufPtr(k), 0)
    ELSE EmptySArray

\* the server's request handler takes the oldest handed message: it copies
\* the values of a push request into its store and answers with an empty
\* response; it answers a pull request with the key, values and their length
ServerHandle(ans) ==
    LET msg == Head(app.inbox[S])
        k == msg.meta.key
        vals == Answer(k, ans)
        res == IF msg.meta.push
               THEN [meta |-> NewMeta(S, msg.meta.sender, k, FALSE, TRUE, FALSE, 0, msg.meta.ts),
                     data |-> << >>]
               ELSE [meta |-> NewMeta(S, msg.meta.sender, k, FALSE, FALSE, FALSE, 3,
                                      msg.meta.ts),
                     data |-> <<SArray(KeysPtr(k), sizeofKey), vals,
                                SArray(LensPtr(vals.size), sizeofInt)>>]
        vS == IF msg.meta.push
              THEN [van[S] EXCEPT !.appmem[k] =
                       Overlay(@, 0, ReadMem(van[S], shm, msg.data[2].ptr, msg.data[2].size))]
              ELSE van[S]
    IN  /\ ~van[S].fatal
        /\ app.inbox[S] # << >>
        /\ IF msg.meta.control
           THEN /\ ans = "store"
                /\ app' = [app EXCEPT !.inbox[S] = Tail(@)]
                /\ UNCHANGED <<van, shm>>
           ELSE /\ msg.meta.push => ans = "store"
                /\ \E out \in SendMsg(vS, shm, res) :
                      /\ ~out.blocked
                      /\ van' = [van EXCEPT ![S] = out.v]
                      /\ shm' = out.sh
                      /\ app' = [app EXCEPT
                            !.inbox[S] = Tail(@),
                            !.store[k] = IF msg.meta.push THEN msg.data[2].size ELSE @,
                            !.answered = IF msg.meta.push THEN @
                                         ELSE HeapPut(@, msg.meta.ts, ans),
                            !.last = CallRecord(S, res, k, out)]
        /\ UNCHANGED <<apvars, auxvars>>

\* the worker's kv layer takes the oldest handed message: a response ends its
\* request
WorkerHandle ==
    LET msg == Head(app.inbox[W])
        k == msg.meta.key
    IN  /\ ~van[W].fatal
        /\ app.inbox[W] # << >>
        /\ app' = [app EXCEPT
              !.inbox[W] = Tail(@),
              !.pending = IF k \in Keys
                          THEN [@ EXCEPT ![k] = SelectSeq(@, LAMBDA q : q.ts # msg.meta.ts)]
                          ELSE @,
              !.sentpush = HeapDel(@, msg.meta.ts),
              !.answered = HeapDel(@, msg.meta.ts)]
        /\ UNCHANGED <<van, shm, apvars, auxvars>>

\* IPCTransport::AsyncCopyThread of the outgoing endpoint of node n, one
\* iteration of thread i: a job of length 0 is dropped; otherwise the bytes
\* are copied and the meta write is posted
AsyncCopyThread(n, i) ==
    LET e == van[n].ep["out"]
        m == Head(e.async_copy_queue_[i])
        e1 == [e EXCEPT !.async_copy_queue_[i] = Tail(@)]
    IN  /\ ~van[n].fatal
        /\ e.async_copy_queue_[i] # << >>
        /\ IF m.len = 0
           THEN /\ van' = [van EXCEPT ![n].ep["out"] = e1]
                /\ UNCHANGED shm
           ELSE IF m.dst = NULL \/ m.src = NULL
           THEN /\ van' = [van EXCEPT ![n].ep["out"] = e1, ![n].fatal = TRUE]
                /\ UNCHANGED shm
           ELSE /\ e.free_write_ctx # << >>
                /\ shm' = [shm EXCEPT ![m.dst[2]] =
                              Overlay(@, 0, ReadMem(van[n], shm, m.src, m.len))]
                /\ LET r == RDMAWriteWithImm(e1, m.msg_buf, van[n].msgbufs[m.msg_buf],
                                             m.remote_tuple[1], m.remote_tuple[2],
                                             m.remote_tuple[3])
                   IN  van' = [van EXCEPT ![n].ep["out"] = r.e,
                                          ![n].msgbufs[m.msg_buf] = r.msg_buf,
                                          ![n].fatal = r.fatal]
        /\ UNCHANGED <<app, apvars, auxvars>>

\* the values arrays the worker pushes: its buffer of the key with a length
\* up to the capacity, or an array without storage
PushArrays(k) == {SArray(WBuf(k), len) : len \in 0 .. MaxValLen} \cup {EmptySArray}

Next ==
    \/ \E k \in Keys : \E sa \in PushArrays(k) : WorkerPush(k, sa)
    \/ \E k \in Keys : WorkerPull(k)
    \/ WorkerControl
    \/ \E k \in Keys : \E b \in ByteVals : WorkerWrite(k, b)
    \/ \E n \in Nodes : \E side \in Sides : Deliver(n, side)
    \/ \E n \in Nodes : Poll(n)
    \/ \E n \in Nodes : Receive(n)
    \/ \E ans \in {"store", "none", "null"} : ServerHandle(ans)
    \/ WorkerHandle
    \/ \E n \in Nodes : \E i \in 0 .. (ipc_copy_nthreads_ - 1) : AsyncCopyThread(n, i)

Spec == Init /\ [][Next]_allvars

(***************************************************************************)
(*                       PROPERTIES OF THE PROTOCOL                        *)
(***************************************************************************)
IsPushRequest(msg) == IsValidPushpull(msg) /\ msg.meta.push /\ msg.meta.request
IsPullResponse(msg) == IsValidPushpull(msg) /\ ~msg.meta.push /\ ~msg.meta.request

\* the bytes a handed message shows in its i-th array
View(n, msg, i) == ReadMem(van[n], shm, msg.data[i].ptr, msg.data[i].size)

\* the integer a little-endian byte sequence holds
RECURSIVE ValueOf(_)
ValueOf(bytes) == IF bytes = << >> THEN 0 ELSE Head(bytes) + 256 * ValueOf(Tail(bytes))

\* the request of the worker that a handed response answers
RequestOf(msg) ==
    {q \in {app.pending[msg.meta.key][j] : j \in DOMAIN app.pending[msg.meta.key]} :
        q.ts = msg.meta.ts}

\* C1: when a push of values V for key k has been delivered to the server and
\* the server answers a later pull of k from what it stored, the values view
\* of the pull response handed to the worker is byte-identical to V, for the
\* first pull response (rendezvous) and for later ones (cached address).
C1_PullReturnsPushed ==
    \A i \in DOMAIN app.inbox[W] :
        LET msg == app.inbox[W][i] IN
        IsPullResponse(msg) /\ app.answered[msg.meta.ts] = "store" =>
            \A q \in RequestOf(msg) :
                q.expect # {} => View(W, msg, 2) \in q.expect

C3_NoRendezvousAfterCache ==
    app.last.valid /\ app.last.had =>
        /\ \A i \in DOMAIN app.last.posted : app.last.posted[i] # "SEND_WITH_IMM"
        /\ \/ app.last.fatal
           \/ app.last.queued
           \/ /\ app.last.posted # << >>
              /\ app.last.posted[Len(app.last.posted)] = "RDMA_WRITE_WITH_IMM"

\* a second push of a key went out with the meta write only after the value write
C3_Witness ==
    /\ app.last.valid /\ app.last.had /\ app.last.push /\ app.last.request
    /\ app.last.posted = <<"RDMA_WRITE", "RDMA_WRITE_WITH_IMM">>

\* every work request of every SendMsg call of node n has completed and its
\* completion has been dispatched
Quiescent(n) ==
    /\ ~van[n].fatal
    /\ van[n].stat.sendmsg > 0
    /\ van[n].ep["out"].sq = << >>
    /\ van[n].msgbufs = << >>
    /\ \A i \in 0 .. (ipc_copy_nthreads_ - 1) : van[n].ep["out"].async_copy_queue_[i] = << >>

\* C4 as stated: when all work requests of the SendMsg calls of a node have
\* completed, its poller has dispatched as many signalled completions of them
\* as there were SendMsg calls, rendezvous or not.
C4_OneCompletionPerMessage ==
    \A n \in Nodes :
        Quiescent(n) => van[n].stat.sig_send + van[n].stat.sig_write = van[n].stat.sendmsg

\* C4 as the code has it: when all work requests of the SendMsg calls of a
\* node have completed, its poller has dispatched one signalled RDMA_WRITE
\* completion per SendMsg call and, in addition, one signalled SEND
\* completion per RendezvousStart.
C4_OneWriteCompletionPerMessage ==
    \A n \in Nodes :
        Quiescent(n) => /\ van[n].stat.sig_write = van[n].stat.sendmsg
                        /\ van[n].stat.sig_send = van[n].stat.start

\* a node is done with messages of both kinds
C4_Witness ==
    \E n \in Nodes :
        Quiescent(n) /\ van[n].stat.start >= 1 /\ van[n].stat.cached >= 1

C7_TensorInfoWrittenOnce ==
    /\ \A kr \in KeyPeer : van[S].tensor_info_map_[kr] = app.firstinfo[kr]
    /\ /\ app.lastrecv.push_request
       /\ app.firstinfo[app.lastrecv.kr] # NULL
       /\ app.lastrecv.info # app.firstinfo[app.lastrecv.kr]
       => app.lastrecv.fatal /\ van[S].fatal

\* a second push request with another length was received
C7_Witness ==
    /\ app.lastrecv.push_request
    /\ app.firstinfo[app.lastrecv.kr] # NULL
    /\ app.lastrecv.info # app.firstinfo[app.lastrecv.kr]
    /\ van[S].fatal

C9_ZeroLengthPush ==
    /\ /\ app.last.node = W /\ app.last.valid /\ app.last.push /\ app.last.request
       /\ app.last.zero
       => /\ ~app.last.fatal
          /\ \A i \in DOMAIN app.last.posted : app.last.posted[i] # "RDMA_WRITE"
    /\ \A i \in DOMAIN app.inbox[S] :
          LET msg == app.inbox[S][i] IN
          IsPushRequest(msg) /\ app.sentpush[msg.meta.ts].vals = << >> =>
              msg.data[2].size = 0

\* C10: a pull response whose values have length 0 is eventually delivered,
\* on the RDMA and on the IPC transport, and the worker is handed an empty
\* values view. In every state this requires that SendMsg of such a response
\* has fired no fatal check and that a handed one has an empty values view.
C10_ZeroLengthPullResponse ==
    /\ /\ app.last.node = S /\ app.last.valid /\ ~app.last.push /\ ~app.last.request
       /\ app.last.zero
       => ~app.last.fatal
    /\ \A i \in DOMAIN app.inbox[W] :
          LET msg == app.inbox[W][i] IN
          IsPullResponse(msg) /\ app.answered[msg.meta.ts] \in {"none", "null"} =>
              msg.data[2].size = 0

(***************************************************************************)
(*                 THE ADDRESS POOL UNDER CONCURRENT CALLS                 *)
\* the message RecvMsg rebuilds from the j-th notification the poller of node
\* n has queued
NotifiedMsg(n, j) == RecvMsg([van[n] EXCEPT !.recv_buffers_ = <<@[j]>>])

\* C22: when the poller has dispatched the RECV_RDMA_WITH_IMM completion of a
\* data-bearing message, the value bytes of that message are in place at the
\* receiver: those the sender passed for a push request, those the server
\* stored for a pull response.
C22_ValuesBeforeNotification ==
    \A n \in Nodes : \A j \in DOMAIN van[n].recv_buffers_ :
        LET r == NotifiedMsg(n, j) IN
        ~van[n].fatal /\ ~r.fatal =>
            /\ IsPushRequest(r.msg) =>
                  View(n, r.msg, 2) = app.sentpush[r.msg.meta.ts].vals
            /\ IsPullResponse(r.msg) /\ app.answered[r.msg.meta.ts] = "store" =>
                  \A q \in RequestOf(r.msg) :
                      q.expect # {} => View(n, r.msg, 2) \in q.expect

\* C23: on an IPC transport the worker's push requests lead to no RDMA write
\* of the values: its queue pair never holds an RDMA_WRITE, and a push sent
\* through SendPushRequest posts exactly the signaled metadata write.
C23_IPCPushOnlyMeta ==
    van[W].ep["out"].transport = "IPC" =>
        /\ \A i \in DOMAIN van[W].ep["out"].sq :
              van[W].ep["out"].sq[i].opcode # "RDMA_WRITE"
        /\ /\ app.last.node = W /\ app.last.valid /\ app.last.push /\ app.last.request
           /\ app.last.had /\ ~app.last.fatal
           => app.last.posted = <<"RDMA_WRITE_WITH_IMM">>

\* the valid push/pull messages node n can pass to SendMsg, as far as
\* PackWorkerTensorAddress reads them
PackInputs(n) ==
    {[meta |-> NewMeta(n, Peer(n), k, request, push, FALSE, 0, 0), data |-> << >>] :
        k \in Keys, request \in BOOLEAN, push \in BOOLEAN}

\* the packed meta of a message buffer is that of a pull response
PackedPullResponse(p) == ~p.control /\ ~p.simple_app /\ ~p.push /\ ~p.request

\* C24: the packed meta of every pull response on its way to receiver r for
\* key k carries the (val_len, addr, rkey) of r's first push of k;
\* PackWorkerTensorAddress is fatal for a pull response of a (k, r) without a
\* stored entry and returns every other message as it was.
C24_PullResponseCarriesStoredInfo ==
    /\ \A n \in Nodes : \A mb \in DOMAIN van[n].msgbufs :
          LET p == van[n].msgbufs[mb].inline_buf[2] IN
          PackedPullResponse(p) =>
              /\ app.firstinfo[<<p.key, Peer(n)>>] # NULL
              /\ <<p.val_len, p.addr, p.option>> = app.firstinfo[<<p.key, Peer(n)>>]
    /\ \A n \in Nodes : \A msg \in PackInputs(n) :
          LET r == PackWorkerTensorAddress(van[n], msg)
              kr == <<msg.meta.key, msg.meta.recver>>
          IN  IF msg.meta.push \/ msg.meta.request
              THEN ~r.fatal /\ r.msg = msg
              ELSE IF van[n].tensor_info_map_[kr] = NULL THEN r.fatal
              ELSE /\ ~r.fatal
                   /\ <<r.msg.meta.val_len, r.msg.meta.addr, r.msg.meta.option>>
                          = app.firstinfo[kr]

\* a pull response is on its way after the worker pushed the key twice, and
\* the server has no entry for a pull response to itself
C24_Witness ==
    /\ \E mb \in DOMAIN van[S].msgbufs :
          /\ PackedPullResponse(van[S].msgbufs[mb].inline_buf[2])
          /\ van[S].msgbufs[mb].inline_buf[2].ts = 3
    /\ \E k \in Keys : van[S].tensor_info_map_[<<k, W>>] # NULL
    /\ \E k \in Keys : van[W].tensor_info_map_[<<k, S>>] = NULL
    /\ ~van[S].fatal

\* largest metadata length of the offset arithmetic
MaxMetaLen == 9

\* the first multiple of the page size at or after len
FirstPageBoundary(len) ==
    CHOOSE b \in 0 .. (len + pagesize_) :
        /\ b % pagesize_ = 0
        /\ b >= len
        /\ \A c \in 0 .. (b - 1) : ~(c % pagesize_ = 0 /\ c >= len)

RecvInFlight(n, side) ==
    {i \in DOMAIN van[n].cq :
        /\ van[n].cq[i].endpoint = side
        /\ van[n].cq[i].opcode \in {"RECV", "RECV_RDMA_WITH_IMM"}}

\* C28: while the poller of a node is not inside a dispatch, each receive
\* context of an endpoint is either posted or held by a completion that has
\* not been dispatched, never both: the posted receives and the undispatched
\* receive completions together are the kRxDepth contexts, each once, so a
\* dispatch posts again the context it consumed, and the buffer of an
\* undispatched RECV is not posted.
C28_ReceivesReposted ==
    \A n \in Nodes : \A side \in Sides :
        LET rq == van[n].ep[side].rq
            held == RecvInFlight(n, side)
        IN  ~van[n].fatal /\ ~van[n].stuck =>
                /\ Len(rq) + Cardinality(held) = kRxDepth
                /\ {rq[i] : i \in DOMAIN rq} \cup {van[n].cq[i].wr_id[2] : i \in held}
                      = 1 .. kRxDepth
                /\ \A i \in held : van[n].cq[i].wr_id[1] = "rx"
                /\ van[n].cq = << >> => Len(rq) = kRxDepth

\* the server's incoming endpoint has all receives posted again after a RECV
\* and a RECV_RDMA_WITH_IMM completion were dispatched in that order
C28_Witness ==
    /\ ~van[S].fatal /\ ~van[S].stuck
    /\ van[S].cq = << >>
    /\ Len(van[S].ep["in"].rq) = kRxDepth
    /\ van[S].ep["in"].rq[kRxDepth - 1] = 1
    /\ van[S].ep["in"].rq[kRxDepth] = 2
    /\ van[S].recv_buffers_ # << >>

\* this step is the poller of node n dispatching a RendezvousReply
DispatchesReply(n) ==
    /\ van[n].cq # << >>
    /\ van'[n].cq = Tail(van[n].cq)
    /\ Head(van[n].cq).ok
    /\ Head(van[n].cq).opcode = "RECV"
    /\ Head(van[n].cq).imm_data = kRendezvousReply

\* the work requests a step posted on an endpoint of node n
Posted(n, side) ==
    SubSeq(van'[n].ep[side].sq, Len(van[n].ep[side].sq) + 1, Len(van'[n].ep[side].sq))

\* C29: the dispatch of a RendezvousReply posts exactly one signalled write
\* with immediate, for the message buffer origin_addr names, to the address,
\* rkey and index of the reply, and removes the pending entry of that buffer;
\* with every message of a node completed its pending table is empty.
C29_ReplyTriggersOneWrite ==
    [][\A n \in Nodes :
         /\ DispatchesReply(n) =>
               LET wc == Head(van[n].cq)
                   side == wc.endpoint
                   resp == van[n].ep[side].rxbuf[wc.wr_id[2]]
                   mb == resp.origin_addr[2]
                   writes == SelectSeq(Posted(n, side),
                                       LAMBDA w : w.opcode = "RDMA_WRITE_WITH_IMM")
               IN  /\ ~van'[n].fatal /\ ~van'[n].stuck
                   /\ Len(writes) = 1
                   /\ writes[1].src = MsgBufPtr(mb)
                   /\ writes[1].remote_addr = resp.addr
                   /\ writes[1].rkey = resp.rkey
                   /\ writes[1].imm_data = resp.idx
                   /\ writes[1].signaled
                   /\ mb \notin DOMAIN van'[n].msgbuf_cache_
                   /\ \A b \in DOMAIN van[n].msgbuf_cache_ :
                         b # mb => /\ b \in DOMAIN van'[n].msgbuf_cache_
                                   /\ van'[n].msgbuf_cache_[b] = van[n].msgbuf_cache_[b]
         /\ Quiescent(n)' => van'[n].msgbuf_cache_ = << >>]_allvars

\* the posted signalled work requests of an endpoint that hold a context of a kind
Attached(e, kind) ==
    {i \in DOMAIN e.sq : e.sq[i].signaled /\ e.sq[i].wr_id[1] = kind}

\* the message buffers of node n that keep context c reserved
Reserving(n, c) ==
    {mb \in DOMAIN van[n].msgbufs : van[n].msgbufs[mb].reserved_context = c}

\* C30: every start, reply and write context of an endpoint is on its free
\* list, or attached to exactly one posted signalled work request whose
\* completion has not been dispatched, or, a write context, reserved by a
\* message buffer for the write that follows the rendezvous; with no request
\* posted and no message buffer left the free lists hold kStartDepth,
\* kReplyDepth and kWriteDepth contexts.
C30_ContextsConserved ==
    \A n \in Nodes : \A side \in Sides :
        LET e == van[n].ep[side] IN
        ~van[n].fatal =>
            /\ Len(e.free_start_ctx) + Cardinality(Attached(e, "start")) = kStartDepth
            /\ Len(e.free_reply_ctx) + Cardinality(Attached(e, "reply")) = kReplyDepth
            /\ \A i, j \in DOMAIN e.sq :
                  (e.sq[i].signaled /\ e.sq[j].signaled /\ e.sq[i].wr_id = e.sq[j].wr_id)
                  => i = j
            /\ \A w \in 1 .. kWriteDepth :
                  \/ \E i \in DOMAIN e.free_write_ctx : e.free_write_ctx[i] = <<"write", w>>
                  \/ \E i \in Attached(e, "write") : e.sq[i].wr_id = <<"write", w>>
                  \/ side = "out" /\ Reserving(n, <<"write", w>>) # {}
            /\ (e.sq = << >> /\ van[n].msgbufs = << >>)
               => /\ Len(e.free_start_ctx) = kStartDepth
                  /\ Len(e.free_reply_ctx) = kReplyDepth
                  /\ Len(e.free_write_ctx) = kWriteDepth

\* C31: every message passed to SendMsg reaches the peer's RecvMsg; for that
\* the CQ poller must never wait for a write or reply context inside the
\* dispatch of a RendezvousStart or RendezvousReply, because only the poller
\* returns contexts to the free lists and a poller that waits there waits for
\* ever, with the messages behind it undelivered.
C31_PollerNeverWaitsForever ==
    \A n \in Nodes : ~van[n].stuck

(***************************************************************************)
\* the van and the pool at rest
MainIdle ==
    /\ PoolInit
    /\ van = [n \in Nodes |-> VanInit(n, "RDMA", FALSE)]
    /\ shm = ShmInit
    /\ app = AppInit

\* the pool alone: the van around it is idle
PoolSpecInit == MainIdle /\ AuxIdle

SpecPool == PoolSpecInit /\ [][PoolNext]_allvars

\* C5: after any interleaving of StoreAddress and GetAddressAndRelease calls
\* from several threads no index is held by two stored and not yet released
\* buffer contexts: StoreAddress never returns an index whose slot is
\* populated (or still held), a held index names the slot that holds its
\* context, and the indices waiting in indices_ are never held ones (an index
\* becomes available again only through a release of that index).
C5_IndexNeverShared ==
    /\ \A h1, h2 \in ap_held : h1[2] = h2[2] => h1 = h2
    /\ \A h \in ap_held : ap_pool.table[h[2]] = h[1]
    /\ ap_log.op = "store" => ~ap_log.populated /\ ~ap_log.held
    /\ ~ap_pool.corrupt =>
          \A i \in 1 .. Len(ap_pool.indices) :
              ~\E h \in ap_held : h[2] = ap_pool.indices[i]

\* C5 witness: the pool is full again after an index was released by one
\* call and handed out a second time by a later StoreAddress
C5_Witness ==
    /\ ap_log.op = "store" /\ ~ap_pool.corrupt
    /\ ap_log.ptr[2] > kMaxEntries
    /\ Cardinality(ap_held) = kMaxEntries

\* C21: a StoreAddress call that finds every slot of the pool populated ends
\* in the fatal state: no index is returned and every slot keeps its pointer.
C21_FullPoolIsFatal ==
    [][(/\ \E t \in 1 .. PoolThreads :
             ap_mu = {t} /\ ap_pc[t].op = "store" /\ ap_pc'[t].op = "idle"
        /\ \A i \in PoolIdx : ap_pool.table[i] # NULL)
       => /\ ap_fatal'
          /\ ap_log'.op = "fatal"
          /\ \A i \in PoolIdx : ap_pool'.table[i] = ap_pool.table[i]]_allvars

(***************************************************************************)
(*                             RDMAVan::Bind                               *)
(***************************************************************************)
\* the largest max_retry a caller passes
MaxRetry == 2
\* the ports a caller asks for
NodePorts == {0, 9000}
\* values rand_r returns
RandOutputs == {0, 39999, 65535}

\* the port of a retry without the base of 10000
RandomPort_NoBase(r) == r % 40000

\* the port of a retry: 10000 + rand_r(&seed) % 40000
RandomPort(r) == 10000 + (r % 40000)

\* the ports a call can try
BindPorts == NodePorts \cup {RandomPort(r) : r \in RandOutputs}

\* rdma_bind_addr of the listener: 0 unless the environment refuses the port
rdma_bind_addr(held, port) == IF port \in held THEN -1 ELSE 0

\* the van before Bind: the caller's node.port and max_retry, the ports the
\* environment refuses, and what rdma_listen is going to answer
BindInit ==
    /\ MainIdle
    /\ ConnIdle
    /\ LockIdle
    /\ CacheIdle
    /\ ExtIdle
    /\ \E np \in NodePorts : \E mr \in 0 .. MaxRetry : \E held \in SUBSET BindPorts :
       \E lok \in BOOLEAN :
          bind = [pc |-> "loop", node_port |-> np, max_retry |-> mr, held |-> held,
                  listen_ok |-> lok, i |-> 0, port |-> np, tried |-> << >>, ret |-> 0]

\* one iteration of the for loop of Bind: the attempt on port, and on failure
\* the port of the next attempt, or -1 after the last one
BindAttempt ==
    /\ bind.pc = "loop"
    /\ bind.i < bind.max_retry + 1
    /\ IF rdma_bind_addr(bind.held, bind.port) = 0
       THEN bind' = [bind EXCEPT !.tried = Append(@, bind.port), !.pc = "listen"]
       ELSE \E r \in RandOutputs :
               bind' = [bind EXCEPT
                           !.tried = Append(@, bind.port),
                           !.port = IF bind.i = bind.max_retry THEN -1 ELSE RandomPort(r),
                           !.i = @ + 1,
                           !.pc = IF bind.i + 1 < bind.max_retry + 1 THEN "loop"
                                  ELSE "listen"]
    /\ UNCHANGED <<vars, apvars, cmvars, lkvars, rcvars, extvars>>

\* the end of Bind: CHECK(rdma_listen(...) == 0) and return port
BindListen ==
    /\ bind.pc = "listen"
    /\ bind' = IF bind.listen_ok THEN [bind EXCEPT !.pc = "done", !.ret = bind.port]
               ELSE [bind EXCEPT !.pc = "fatal"]
    /\ UNCHANGED <<vars, apvars, cmvars, lkvars, rcvars, extvars>>

BindNext == BindAttempt \/ BindListen

SpecBind == BindInit /\ [][BindNext]_allvars

MaxConnects == 1
\* REJECTED answers in one behaviour
MaxRejects == 2
\* CONNECT_REQUEST events in one behaviour
MaxRequests == 1
\* DISCONNECTED events in one behaviour
MaxDisconnects == 1
\* completions the CQ poller is handed in one behaviour
MaxCompletions == 1

\* Endpoint::Endpoint
EndpointNew == [status |-> "IDLE", node_id |-> "none", cm_id |-> 0, trans |-> "none",
                ninit |-> 0,
                free_start_ctx |-> << >>, free_reply_ctx |-> << >>,
                free_write_ctx |-> << >>, rq |-> << >>]

\* Endpoint::Init: a queue pair on the current identifier, every start, reply
\* and write context pushed to its free list, kRxDepth receives posted
Endpoint_Init(e) ==
    [e EXCEPT !.ninit = @ + 1,
              !.free_start_ctx = @ \o [i \in 1 .. kStartDepth |-> <<"start", i>>],
              !.free_reply_ctx = @ \o [i \in 1 .. kReplyDepth |-> <<"reply", i>>],
              !.free_write_ctx = @ \o [i \in 1 .. kWriteDepth |-> <<"write", i>>],
              !.rq = [i \in 1 .. kRxDepth |-> i]]

\* the endpoint an rdma_cm_id's context points at
OutRef == <<"out", 0>>
InRef(k) == <<"in", k>>
EpOf(c, ref) == IF ref[1] = "out" THEN c.endpoints_[S] ELSE c.incoming_[ref[2]]
SetEp(c, ref, e) == IF ref[1] = "out" THEN [c EXCEPT !.endpoints_[S] = e]
                    ELSE [c EXCEPT !.incoming_[ref[2]] = e]

\* an event of the event channel
CMEvent(event, id) == [event |-> event, id |-> id]

\* RDMAVan::InitContext: the protection domain, both mempools, the completion
\* channel and the completion queue
InitContext(c) ==
    [c EXCEPT !.context_ = TRUE, !.send_mempool_ = "live", !.recv_mempool_ = "live",
              !.comp_event_channel_ = "live", !.cq_ = "live"]

\* rdma_destroy_id: the identifier is gone and so are its events
DestroyId(env, id) ==
    [env EXCEPT !.ids[id].alive = FALSE,
                !.events = SelectSeq(@, LAMBDA ev : ev.id # id)]

\* the transport the peer installs on its own end: it ran Connect for this
\* node with the same settings
PeerTransport(c, env) == IF ~c.disable_ipc_ /\ env.same_host THEN "IPC" ELSE "RDMA"

\* the van after Start and Bind
ConnInit ==
    /\ MainIdle
    /\ BindIdle
    /\ LockIdle
    /\ CacheIdle
    /\ ExtIdle
    /\ \E dis \in BOOLEAN :
          cm = [should_stop_ |-> FALSE, disable_ipc_ |-> dis,
                is_local_ |-> << >>, endpoints_ |-> << >>, incoming_ |-> << >>,
                context_ |-> FALSE, send_mempool_ |-> "null", recv_mempool_ |-> "null",
                comp_event_channel_ |-> "null", cq_ |-> "null",
                listener_ |-> "live", event_channel_ |-> "live",
                cq_polling_thread_ |-> 0, cm_event_polling_thread_ |-> 1,
                fatal |-> FALSE]
    /\ \E sh \in BOOLEAN : \E nh \in BOOLEAN :
          cmenv = [same_host |-> sh, node_host |-> nh, ids |-> << >>, events |-> << >>,
                   nrej |-> 0, nreq |-> 0, ndisc |-> 0, ncomp |-> 0]
    /\ cmth = [app |-> [pc |-> "idle", nconn |-> 0], cmp |-> "head", cq |-> << >>]
    /\ cmlog = [attempts |-> << >>, retries |-> 0, seen |-> "none",
                install |-> [done |-> FALSE, status |-> "none", trans |-> "none",
                             attempts |-> 0],
                accept |-> [done |-> FALSE, trans |-> "none", known |-> FALSE,
                            peer_trans |-> "none"],
                wc |-> [seen |-> FALSE],
                ev |-> [seen |-> FALSE]]

\* the state as one record, for the handlers
ConnState == [cm |-> cm, env |-> cmenv, th |-> cmth, log |-> cmlog]
ConnSet(s) == cm' = s.cm /\ cmenv' = s.env /\ cmth' = s.th /\ cmlog' = s.log

(***************************************************************************)
(* Connect                                                                 *)
(***************************************************************************)
\* Connect up to getaddrinfo, for a peer of the other role: the is_local_
\* entry, and a new Endpoint in place of the one stored for the peer
Connect_Enter ==
    LET old == IF S \in DOMAIN cm.endpoints_ THEN cm.endpoints_[S].cm_id ELSE 0 IN
    /\ ~cm.fatal /\ ~cm.should_stop_
    /\ cmth.app.pc = "idle" /\ cmth.app.nconn < MaxConnects
    /\ cm' = [cm EXCEPT
                 !.is_local_ = HeapPut(@, S, IF cm.disable_ipc_ THEN FALSE
                                             ELSE cmenv.same_host),
                 !.endpoints_ = HeapPut(@, S, [EndpointNew EXCEPT !.node_id = S])]
    /\ cmenv' = IF old # 0 THEN DestroyId(cmenv, old) ELSE cmenv
    /\ cmth' = [cmth EXCEPT !.app.pc = "loop"]
    /\ cmlog' = [cmlog EXCEPT !.attempts = << >>, !.retries = 0, !.seen = "none",
                              !.install.done = FALSE]
    /\ UNCHANGED <<vars, apvars, bindvars, lkvars, rcvars, extvars>>

\* the head and the first half of the body of the connect loop: leave the
\* loop when the status is CONNECTED; otherwise mark CONNECTING, destroy the
\* identifier of the last attempt, create a new one and resolve the address.
\* Without DMLC_NODE_HOST a failing rdma_resolve_addr is fatal; with it the
\* retries end with port = -1 and the thread waits all the same.
Connect_Attempt ==
    LET e == cm.endpoints_[S]
        id == Len(cmenv.ids) + 1
        env1 == IF e.cm_id # 0 THEN DestroyId(cmenv, e.cm_id) ELSE cmenv
        env2 == [env1 EXCEPT !.ids = Append(@, [ep |-> OutRef, peer |-> S, alive |-> TRUE,
                                                established |-> FALSE])]
    IN  /\ ~cm.fatal
        /\ cmth.app.pc = "loop"
        /\ IF e.status = "CONNECTED"
           THEN /\ cmth' = [cmth EXCEPT !.app.pc = "install"]
                /\ UNCHANGED <<cm, cmenv, cmlog>>
           ELSE \E resolved \in BOOLEAN :
                   /\ cm' = [cm EXCEPT !.endpoints_[S].status = "CONNECTING",
                                       !.endpoints_[S].cm_id = id,
                                       !.fatal = ~resolved /\ ~cmenv.node_host]
                   /\ cmenv' = IF resolved
                               THEN [env2 EXCEPT !.events =
                                        Append(@, CMEvent("ADDR_RESOLVED", id))]
                               ELSE env2
                   /\ cmth' = [cmth EXCEPT !.app.pc = "wait"]
                   /\ cmlog' = [cmlog EXCEPT !.attempts = Append(@, id)]
        /\ UNCHANGED <<vars, apvars, bindvars, lkvars, rcvars, extvars>>

\* Connect waking up in the loop with the status that ended the wait and
\* leaving the loop at once
Connect_Wake_Leave ==
    LET e == cm.endpoints_[S] IN
    /\ ~cm.fatal
    /\ cmth.app.pc = "wait"
    /\ e.status # "CONNECTING"
    /\ cmth' = [cmth EXCEPT !.app.pc = "install"]
    /\ cmlog' = [cmlog EXCEPT !.seen = e.status]
    /\ UNCHANGED <<cm, cmenv, vars, apvars, bindvars, lkvars, rcvars, extvars>>

\* the second half of the body of the connect loop: cv.wait until the status
\* is no longer CONNECTING, break when it is CONNECTED, sleep otherwise
Connect_Wake ==
    LET e == cm.endpoints_[S] IN
    /\ ~cm.fatal
    /\ cmth.app.pc = "wait"
    /\ e.status # "CONNECTING"
    /\ cmth' = [cmth EXCEPT !.app.pc = IF e.status = "CONNECTED" THEN "install" ELSE "loop"]
    /\ cmlog' = [cmlog EXCEPT !.seen = e.status,
                              !.retries = IF e.status = "CONNECTED" THEN @ ELSE @ + 1]
    /\ UNCHANGED <<cm, cmenv, vars, apvars, bindvars, lkvars, rcvars, extvars>>

\* the end of Connect: the transport of the endpoint, and the return
Connect_Install ==
    LET e == cm.endpoints_[S]
        t == IF cm.is_local_[S] THEN "IPC" ELSE "RDMA"
    IN  /\ ~cm.fatal
        /\ cmth.app.pc = "install"
        /\ cm' = [cm EXCEPT !.endpoints_[S].trans = t]
        /\ cmth' = [cmth EXCEPT !.app.pc = "idle", !.app.nconn = @ + 1]
        /\ cmlog' = [cmlog EXCEPT !.install = [done |-> TRUE, status |-> e.status,
                                               trans |-> t,
                                               attempts |-> Len(cmlog.attempts)]]
        /\ UNCHANGED <<cmenv, vars, apvars, bindvars, lkvars, rcvars, extvars>>

\* Endpoint::Disconnect of the endpoint stored for the peer, up to the wait:
\* rdma_disconnect, which the manager answers with DISCONNECTED when the
\* connection is still up
Disconnect_Call ==
    /\ ~cm.fatal
    /\ cmth.app.pc = "idle" /\ cmth.app.nconn > 0
    /\ cm.endpoints_[S].trans # "none"
    /\ LET id == cm.endpoints_[S].cm_id IN
       cmenv' = IF cmenv.ids[id].established
                THEN [cmenv EXCEPT !.ids[id].established = FALSE,
                                   !.events = Append(@, CMEvent("DISCONNECTED", id))]
                ELSE cmenv
    /\ cmth' = [cmth EXCEPT !.app.pc = "disconnect"]
    /\ UNCHANGED <<cm, cmlog, vars, apvars, bindvars, lkvars, rcvars, extvars>>

\* Endpoint::Disconnect waking up with the status IDLE: trans.reset() and
\* the return
Disconnect_Return ==
    /\ ~cm.fatal
    /\ cmth.app.pc = "disconnect"
    /\ cm.endpoints_[S].status = "IDLE"
    /\ cm' = [cm EXCEPT !.endpoints_[S].trans = "none"]
    /\ cmth' = [cmth EXCEPT !.app.pc = "idle"]
    /\ UNCHANGED <<cmenv, cmlog, vars, apvars, bindvars, lkvars, rcvars, extvars>>

(***************************************************************************)
(* the handlers of PollEvents                                              *)
(***************************************************************************)
\* RDMAVan::OnConnectRequest: a new incoming endpoint with its transport,
\* chosen by is_local_[remote_ctx->node] (an absent entry is created as
\* false), and rdma_accept, which the manager answers with ESTABLISHED
OnConnectRequest(s, ev) ==
    LET p == s.env.ids[ev.id].peer
        known == p \in DOMAIN s.cm.is_local_
        loc == IF known THEN s.cm.is_local_[p] ELSE FALSE
        e == [Endpoint_Init(EndpointNew) EXCEPT
                 !.node_id = p, !.cm_id = ev.id,
                 !.trans = IF loc THEN "IPC" ELSE "RDMA"]
        c1 == IF s.cm.context_ THEN s.cm ELSE InitContext(s.cm)
    IN  [s EXCEPT
            !.cm = [c1 EXCEPT !.incoming_ = Append(@, e),
                              !.is_local_ = IF known THEN @ ELSE HeapPut(@, p, FALSE)],
            !.env.ids[ev.id].ep = InRef(Len(s.cm.incoming_) + 1),
            !.env.events = Append(@, CMEvent("ESTABLISHED", ev.id)),
            !.log.accept = [done |-> TRUE, trans |-> e.trans, known |-> known,
                            peer_trans |-> PeerTransport(s.cm, s.env)]]

\* RDMAVan::OnAddrResolved: rdma_resolve_route
OnAddrResolved(s, ev) ==
    [s EXCEPT !.env.events = Append(@, CMEvent("ROUTE_RESOLVED", ev.id))]

\* what the peer and the manager answer rdma_connect with
ConnectAnswers(env) ==
    {"ESTABLISHED", "UNREACHABLE"} \cup (IF env.nrej < MaxRejects THEN {"REJECTED"} ELSE {})

\* RDMAVan::OnRouteResolved: the context on first use, Endpoint::Init and
\* rdma_connect
OnRouteResolved(s, ev) ==
    LET ref == s.env.ids[ev.id].ep
        c1 == IF s.cm.context_ THEN s.cm ELSE InitContext(s.cm)
        e == EpOf(c1, ref)
    IN  {[s EXCEPT !.cm = SetEp(c1, ref, Endpoint_Init(e)),
                   !.env.events = Append(@, CMEvent(answer, ev.id)),
                   !.env.nrej = IF answer = "REJECTED" THEN @ + 1 ELSE @]
            : answer \in ConnectAnswers(s.env)}

\* RDMAVan::OnConnected: spawn the CQ poller when there is none, mark the
\* endpoint CONNECTED and notify
OnConnected(s, ev) ==
    LET ref == s.env.ids[ev.id].ep
        e == EpOf(s.cm, ref)
        spawn == s.cm.cq_polling_thread_ = 0
        s1 == IF spawn
              THEN [s EXCEPT !.th.cq = Append(@, "head"),
                             !.cm.cq_polling_thread_ = Len(s.th.cq) + 1]
              ELSE s
    IN  IF e.cm_id # ev.id THEN [s1 EXCEPT !.cm.fatal = TRUE]
        ELSE [s1 EXCEPT !.cm = SetEp(s1.cm, ref, [e EXCEPT !.status = "CONNECTED"]),
                        !.env.ids[ev.id].established = TRUE]

\* RDMAVan::OnDisconnected marking only a connected endpoint IDLE
OnDisconnected_ConnectedOnly(s, ev) ==
    LET ref == s.env.ids[ev.id].ep
        e == EpOf(s.cm, ref)
    IN  IF e.status = "CONNECTED"
        THEN [s EXCEPT !.cm = SetEp(s.cm, ref, [e EXCEPT !.status = "IDLE"])]
        ELSE s

\* RDMAVan::OnDisconnected: mark the endpoint IDLE and notify
OnDisconnected(s, ev) ==
    LET ref == s.env.ids[ev.id].ep
        e == EpOf(s.cm, ref)
    IN  [s EXCEPT !.cm = SetEp(s.cm, ref, [e EXCEPT !.status = "IDLE"])]

\* RDMAVan::OnRejected: three CHECKs, then mark the endpoint REJECTED and notify
OnRejected(s, ev) ==
    LET ref == s.env.ids[ev.id].ep
        e == EpOf(s.cm, ref)
    IN  IF e.node_id \notin DOMAIN s.cm.endpoints_ \/ e.status # "CONNECTING"
           \/ e.cm_id # ev.id
        THEN [s EXCEPT !.cm.fatal = TRUE]
        ELSE [s EXCEPT !.cm = SetEp(s.cm, ref, [e EXCEPT !.status = "REJECTED"])]

\* the kinds of event PollEvents has a case for
HandledEvents == {"CONNECT_REQUEST", "ADDR_RESOLVED", "ROUTE_RESOLVED", "ESTABLISHED",
                  "DISCONNECTED", "REJECTED"}

\* the switch of PollEvents
Dispatch(s, ev) ==
    IF ev.event = "CONNECT_REQUEST" THEN {OnConnectRequest(s, ev)}
    ELSE IF ev.event = "ADDR_RESOLVED" THEN {OnAddrResolved(s, ev)}
    ELSE IF ev.event = "ROUTE_RESOLVED" THEN OnRouteResolved(s, ev)
    ELSE IF ev.event = "ESTABLISHED" THEN {OnConnected(s, ev)}
    ELSE IF ev.event = "DISCONNECTED" THEN {OnDisconnected(s, ev)}
    ELSE IF ev.event = "REJECTED" THEN {OnRejected(s, ev)}
    ELSE {[s EXCEPT !.cm.fatal = TRUE,
                    !.log.ev = [seen |-> TRUE, event |-> ev.event, cm |-> s.cm,
                                env |-> s.env]]}

\* the head of the loop of PollEvents: the stop flag
PollEvents_Head ==
    /\ ~cm.fatal
    /\ cmth.cmp = "head"
    /\ cmth' = [cmth EXCEPT !.cmp = IF cm.should_stop_ THEN "exited" ELSE "poll"]
    /\ UNCHANGED <<cm, cmenv, cmlog, vars, apvars, bindvars, lkvars, rcvars, extvars>>

\* the body of the loop of PollEvents: poll, and with an event pending
\* rdma_get_cm_event, the switch and rdma_ack_cm_event
PollEvents_Poll ==
    /\ ~cm.fatal
    /\ cmth.cmp = "poll"
    /\ IF cmenv.events = << >>
       THEN /\ cmth' = [cmth EXCEPT !.cmp = "head"]
            /\ UNCHANGED <<cm, cmenv, cmlog>>
       ELSE LET ev == Head(cmenv.events)
                s0 == [ConnState EXCEPT !.env.events = Tail(@), !.th.cmp = "head"]
            IN  \E s \in Dispatch(s0, ev) : ConnSet(s)
    /\ UNCHANGED <<vars, apvars, bindvars, lkvars, rcvars, extvars>>

(***************************************************************************)
(* the CQ poller                                                           *)
(***************************************************************************)
\* a van whose outgoing endpoint holds the RendezvousReply for message
\* buffer 1 in receive buffer 1 while all of its write contexts are in use
PollerVan ==
    [VanInit(W, "RDMA", FALSE) EXCEPT
        !.ep["out"].free_write_ctx = << >>,
        !.ep["out"].rxbuf[1] = [addr |-> <<"land", 1, 0>>, rkey |-> MempoolKey("recv"),
                                idx |-> 0, origin_addr |-> MsgBufPtr(1)],
        !.msgbufs = HeapPut(@, 1, [inline_len |-> kRawMetaLen])]

\* the completions the poller is handed
Completions ==
    {WC("out", "SEND", <<"start", 1>>, 0, TRUE),
     WC("out", "SEND", <<"start", 1>>, 0, FALSE),
     WC("out", "RDMA_WRITE", <<"write", 1>>, 0, FALSE),
     WC("out", "RECV", <<"rx", 1>>, kRendezvousReply, TRUE),
     WC("out", "RECV", <<"rx", 1>>, kRendezvousReply, FALSE),
     WC("out", "RECV", <<"rx", 1>>, 2, TRUE),
     WC("out", "RDMA_READ", <<"start", 1>>, 0, TRUE)}

\* the head of the loop of PollCQ: the stop flag
PollCQ_Head(t) ==
    /\ ~cm.fatal
    /\ cmth.cq[t] = "head"
    /\ cmth' = [cmth EXCEPT !.cq[t] = IF cm.should_stop_ THEN "exited" ELSE "poll"]
    /\ UNCHANGED <<cm, cmenv, cmlog, vars, apvars, bindvars, lkvars, rcvars, extvars>>

\* the body of the loop of PollCQ: ibv_poll_cq returns nothing, or one
\* completion that is dispatched; the thread stays in the dispatch when that
\* waits for a free write context
PollCQ_Poll(t) ==
    /\ ~cm.fatal
    /\ cmth.cq[t] = "poll"
    /\ \/ /\ cmth' = [cmth EXCEPT !.cq[t] = "head"]
          /\ UNCHANGED <<cm, cmenv, cmlog>>
       \/ /\ cmenv.ncomp < MaxCompletions
          /\ \E wc \in Completions :
             \E x \in PollCQ([PollerVan EXCEPT !.cq = <<wc>>]) :
                /\ cm' = [cm EXCEPT !.fatal = x.fatal]
                /\ cmth' = [cmth EXCEPT !.cq[t] = IF x.stuck THEN "blocked"
                                                  ELSE IF x.fatal THEN "poll" ELSE "head"]
                /\ cmenv' = [cmenv EXCEPT !.ncomp = @ + 1]
                /\ cmlog' = [cmlog EXCEPT !.wc = [seen |-> TRUE, wc |-> wc, out |-> x]]
    /\ UNCHANGED <<vars, apvars, bindvars, lkvars, rcvars, extvars>>

(***************************************************************************)
(* Stop                                                                    *)
(***************************************************************************)
\* Stop up to the first join: should_stop_ = true
Stop_SetFlag ==
    /\ ~cm.fatal
    /\ cmth.app.pc = "idle"
    /\ cm' = [cm EXCEPT !.should_stop_ = TRUE]
    /\ cmth' = [cmth EXCEPT !.app.pc = "join_cq"]
    /\ UNCHANGED <<cmenv, cmlog, vars, apvars, bindvars, lkvars, rcvars, extvars>>

\* cq_polling_thread_->join() and reset(): the call through a null pointer
\* faults; otherwise the caller waits until the thread has left PollCQ
Stop_JoinCQ ==
    /\ ~cm.fatal
    /\ cmth.app.pc = "join_cq"
    /\ IF cm.cq_polling_thread_ = 0
       THEN /\ cm' = [cm EXCEPT !.fatal = TRUE]
            /\ cmth' = [cmth EXCEPT !.app.pc = "crashed"]
       ELSE /\ cmth.cq[cm.cq_polling_thread_] = "exited"
            /\ cm' = [cm EXCEPT !.cq_polling_thread_ = 0]
            /\ cmth' = [cmth EXCEPT !.app.pc = "join_cm"]
    /\ UNCHANGED <<cmenv, cmlog, vars, apvars, bindvars, lkvars, rcvars, extvars>>

\* cm_event_polling_thread_->join() and reset()
Stop_JoinCM ==
    /\ ~cm.fatal
    /\ cmth.app.pc = "join_cm"
    /\ cmth.cmp = "exited"
    /\ cm' = [cm EXCEPT !.cm_event_polling_thread_ = 0]
    /\ cmth' = [cmth EXCEPT !.app.pc = "free"]
    /\ UNCHANGED <<cmenv, cmlog, vars, apvars, bindvars, lkvars, rcvars, extvars>>

\* the rest of Stop: the mempools, the endpoints, the completion queue and
\* its channel, the listener and the event channel
Stop_Free ==
    /\ ~cm.fatal
    /\ cmth.app.pc = "free"
    /\ cm' = [cm EXCEPT !.send_mempool_ = "freed", !.recv_mempool_ = "freed",
                        !.incoming_ = << >>, !.endpoints_ = << >>,
                        !.cq_ = "freed", !.comp_event_channel_ = "freed",
                        !.listener_ = "freed", !.event_channel_ = "freed",
                        !.fatal = (cm.cq_ = "null")]
    /\ cmth' = [cmth EXCEPT !.app.pc = IF cm.cq_ = "null" THEN "crashed" ELSE "stopped"]
    /\ UNCHANGED <<cmenv, cmlog, vars, apvars, bindvars, lkvars, rcvars, extvars>>

(***************************************************************************)
(* the peer                                                                *)
(***************************************************************************)
\* the peer runs Connect for this node: a CONNECT_REQUEST on a new identifier
PeerConnect ==
    /\ ~cm.fatal
    /\ cm.event_channel_ = "live"
    /\ cmenv.nreq < MaxRequests
    /\ cmenv' = [cmenv EXCEPT
                    !.nreq = @ + 1,
                    !.ids = Append(@, [ep |-> InRef(0), peer |-> S, alive |-> TRUE,
                                       established |-> FALSE]),
                    !.events = Append(@, CMEvent("CONNECT_REQUEST", Len(cmenv.ids) + 1))]
    /\ UNCHANGED <<cm, cmth, cmlog, vars, apvars, bindvars, lkvars, rcvars, extvars>>

\* an established connection is closed by the peer or lost
PeerDisconnect ==
    /\ ~cm.fatal
    /\ cm.event_channel_ = "live"
    /\ cmenv.ndisc < MaxDisconnects
    /\ \E id \in DOMAIN cmenv.ids :
          /\ cmenv.ids[id].alive /\ cmenv.ids[id].established
          /\ cmenv' = [cmenv EXCEPT !.ndisc = @ + 1,
                                    !.ids[id].established = FALSE,
                                    !.events = Append(@, CMEvent("DISCONNECTED", id))]
    /\ UNCHANGED <<cm, cmth, cmlog, vars, apvars, bindvars, lkvars, rcvars, extvars>>

ConnNext ==
    \/ Connect_Enter
    \/ Connect_Attempt
    \/ Connect_Wake
    \/ Connect_Install
    \/ Disconnect_Call
    \/ Disconnect_Return
    \/ PollEvents_Head
    \/ PollEvents_Poll
    \/ \E t \in DOMAIN cmth.cq : PollCQ_Head(t)
    \/ \E t \in DOMAIN cmth.cq : PollCQ_Poll(t)
    \/ Stop_SetFlag
    \/ Stop_JoinCQ
    \/ Stop_JoinCM
    \/ Stop_Free
    \/ PeerConnect
    \/ PeerDisconnect

SpecConn == ConnInit /\ [][ConnNext]_allvars

\* what holds of the attempts of a call of Connect whatever the answers: each
\* wake-up with a status other than CONNECTED is followed by one more attempt
\* on a new identifier, the identifiers of the earlier attempts are
\* destroyed, and the call returns after the attempt that was answered by
\* ESTABLISHED without another one
ConnectRetries ==
    LET n == Len(cmlog.attempts) IN
    /\ cmth.app.pc = "loop" => n = cmlog.retries /\ (~cm.fatal => ENABLED Connect_Attempt)
    /\ cmth.app.pc \in {"wait", "install"} =>
          /\ n = cmlog.retries + 1
          /\ cm.endpoints_[S].cm_id = cmlog.attempts[n]
    /\ \A i \in 1 .. n : \A j \in 1 .. n : i < j => cmlog.attempts[i] # cmlog.attempts[j]
    /\ \A i \in 1 .. (n - 1) :
          cmth.app.pc \in {"wait", "install"} => ~cmenv.ids[cmlog.attempts[i]].alive
    /\ cmth.app.pc = "install" => cmlog.seen = "CONNECTED"
    /\ cmlog.install.done =>
          /\ cmlog.seen = "CONNECTED"
          /\ cmlog.install.attempts = cmlog.retries + 1

C13_AcceptedTransport ==
    cmlog.accept.done =>
        /\ cmlog.accept.trans = IF ~cm.disable_ipc_ /\ cmenv.same_host THEN "IPC" ELSE "RDMA"
        /\ cmlog.accept.trans = cmlog.accept.peer_trans

\* something Stop frees has been freed
Freed ==
    \/ cm.send_mempool_ = "freed" \/ cm.recv_mempool_ = "freed"
    \/ cm.cq_ = "freed" \/ cm.comp_event_channel_ = "freed"
    \/ cm.listener_ = "freed" \/ cm.event_channel_ = "freed"

\* C18: Stop sets the stop flag, then joins the CQ poller and the CM-event
\* poller, and frees the mempools, the endpoints, the completion queue, the
\* listener and the event channel only after that: while one of them is
\* freed no poller thread exists that has not left its loop.
C18_FreeAfterJoin ==
    /\ cmth.app.pc \in {"join_cq", "join_cm", "free", "stopped"} => cm.should_stop_
    /\ cmth.app.pc \in {"free", "stopped"} => cmth.cmp = "exited"
    /\ Freed => /\ cmth.cmp = "exited"
                /\ \A t \in DOMAIN cmth.cq : cmth.cq[t] = "exited"

\* C19: Stop returns from every state after Start. In every state this
\* requires that Stop has not ended in a fault, on a van without a
\* connection too, and that the thread it joins is not waiting for a free
\* work-request context, which nobody else returns.
C19_StopReturns ==
    /\ cmth.app.pc # "crashed"
    /\ ~(/\ cmth.app.pc = "join_cq"
         /\ cm.cq_polling_thread_ # 0
         /\ cmth.cq[cm.cq_polling_thread_] = "blocked")

\* this step is PollEvents handling an event of one of the kinds
Handling(kinds) ==
    /\ cmth.cmp = "poll" /\ cmth'.cmp = "head"
    /\ cmenv.events # << >>
    /\ Head(cmenv.events).event \in kinds

\* the endpoints of the van, outgoing and incoming
ConnEndpoints(c) ==
    {c.endpoints_[p] : p \in DOMAIN c.endpoints_} \cup {c.incoming_[k] : k \in DOMAIN c.incoming_}

\* the completion queue, its channel and both mempools exist
ContextLive(c) ==
    /\ c.context_ /\ c.cq_ = "live" /\ c.comp_event_channel_ = "live"
    /\ c.send_mempool_ = "live" /\ c.recv_mempool_ = "live"

\* C27: the context (protection domain, completion queue, mempools) is
\* created once, by the first ROUTE_RESOLVED or CONNECT_REQUEST that is
\* handled; the CQ poller is spawned once, by the first ESTABLISHED; an
\* endpoint is initialised only with the context that exists.
C27_ContextAndPollerOnce ==
    [][/\ cm'.context_ # cm.context_
          => /\ ~cm.context_ /\ cm.cq_ = "null" /\ cm.send_mempool_ = "null"
                /\ cm.recv_mempool_ = "null"
             /\ ContextLive(cm')
             /\ Handling({"ROUTE_RESOLVED", "CONNECT_REQUEST"})
       /\ cm'.cq_ = "live" /\ cm.cq_ # "live" => cm'.context_ # cm.context_
       /\ cm'.send_mempool_ = "live" /\ cm.send_mempool_ # "live" => cm'.context_ # cm.context_
       /\ cm'.recv_mempool_ = "live" /\ cm.recv_mempool_ # "live" => cm'.context_ # cm.context_
       /\ Handling({"ROUTE_RESOLVED", "CONNECT_REQUEST"}) => ContextLive(cm')
       /\ cmth'.cq # cmth.cq /\ Len(cmth'.cq) # Len(cmth.cq)
          => /\ cmth.cq = << >> /\ Len(cmth'.cq) = 1
             /\ Handling({"ESTABLISHED"})
       /\ Handling({"ESTABLISHED"}) /\ cmth.cq = << >> => Len(cmth'.cq) = 1
       /\ \A k \in DOMAIN cm'.incoming_ :
             (k \notin DOMAIN cm.incoming_ \/ cm'.incoming_[k].ninit # cm.incoming_[k].ninit)
             => ContextLive(cm')
       /\ \A q \in DOMAIN cm'.endpoints_ :
             (q \in DOMAIN cm.endpoints_ /\ cm'.endpoints_[q].ninit > cm.endpoints_[q].ninit)
             => ContextLive(cm')]_allvars

\* no element occurs twice in the sequence
NoDuplicate(q) == \A i, j \in DOMAIN q : q[i] = q[j] => i = j

\* C32: whatever the number of REJECTED retries, every work-request context
\* of an endpoint is at most once in its free list, the free lists hold at
\* most kStartDepth, kReplyDepth and kWriteDepth contexts and at most kRxDepth
\* receives are posted on the current queue pair.
C32_InitOncePerContext ==
    \A e \in ConnEndpoints(cm) :
        /\ NoDuplicate(e.free_start_ctx) /\ Len(e.free_start_ctx) <= kStartDepth
        /\ NoDuplicate(e.free_reply_ctx) /\ Len(e.free_reply_ctx) <= kReplyDepth
        /\ NoDuplicate(e.free_write_ctx) /\ Len(e.free_write_ctx) <= kWriteDepth
        /\ Len(e.rq) <= kRxDepth

\* a completion PollCQ has no handler for
BadCompletion(wc) ==
    \/ ~wc.ok
    \/ wc.opcode \notin {"SEND", "RDMA_WRITE", "RECV_RDMA_WITH_IMM", "RECV"}
    \/ wc.opcode = "RECV" /\ wc.imm_data \notin {kRendezvousStart, kRendezvousReply}

\* C20: a completion with a status other than success, a completion with an
\* opcode other than SEND, RDMA_WRITE, RECV_RDMA_WITH_IMM and RECV, a RECV
\* completion with an immediate other than kRendezvousStart and
\* kRendezvousReply, and a CM event outside the six handled kinds each end in
\* the fatal state, with nothing of the van changed by a handler and the
\* poller not going on to another iteration.
C20_UnexpectedInputIsFatal ==
    /\ cmlog.wc.seen /\ BadCompletion(cmlog.wc.wc) =>
          /\ cm.fatal
          /\ cmlog.wc.out = [PollerVan EXCEPT !.fatal = TRUE]
          /\ \E t \in DOMAIN cmth.cq : cmth.cq[t] = "poll"
    /\ cmlog.ev.seen =>
          /\ cmlog.ev.event \notin HandledEvents
          /\ cm = [cmlog.ev.cm EXCEPT !.fatal = TRUE]
          /\ cmenv = cmlog.ev.env
          /\ cmth.cmp = "head"

\* the poller was handed a RECV completion with immediate 2
C20_Witness ==
    /\ cmlog.wc.seen
    /\ cmlog.wc.wc.ok /\ cmlog.wc.wc.opcode = "RECV" /\ cmlog.wc.wc.imm_data = 2
    /\ cm.fatal

\* the endpoint an identifier's context points at is in the tables of the van
HasEp(c, ref) == IF ref[1] = "out" THEN S \in DOMAIN c.endpoints_
                 ELSE ref[2] \in DOMAIN c.incoming_

\* the values of Endpoint::status
EndpointStatus == {"IDLE", "CONNECTING", "CONNECTED", "REJECTED"}

\* the app thread leaves the wait of the connect loop in this step
ConnectWakes == cmth.app.pc = "wait" /\ cmth'.app.pc # "wait"

\* the app thread returns from Endpoint::Disconnect in this step
DisconnectReturns == cmth.app.pc = "disconnect" /\ cmth'.app.pc # "disconnect"

\* C39: a DISCONNECTED event leaves the endpoint of its identifier IDLE
\* whatever its status was, which ends the wait of every thread waiting on
\* the endpoint; Endpoint::Disconnect returns only with the status IDLE and
\* drops the transport at its return, not before; a Connect that wakes up
\* from its wait with the status IDLE does not return but makes another
\* attempt on a new identifier.
C39_DisconnectedMeansIdle ==
    [][/\ \A i \in DOMAIN cmenv.events : \A st \in EndpointStatus :
             (cmenv.events[i].event = "DISCONNECTED"
                /\ HasEp(cm, cmenv.ids[cmenv.events[i].id].ep)) =>
                 LET ev  == cmenv.events[i]
                     ref == cmenv.ids[ev.id].ep
                     s   == [ConnState EXCEPT
                                !.cm = SetEp(cm, ref, [EpOf(cm, ref) EXCEPT !.status = st])]
                 IN  EpOf(OnDisconnected(s, ev).cm, ref).status = "IDLE"
       /\ Handling({"DISCONNECTED"}) =>
             LET ref == cmenv.ids[Head(cmenv.events).id].ep IN
             /\ EpOf(cm', ref).status = "IDLE"
             /\ (ref = OutRef /\ cmth.app.pc = "wait") =>
                    cm'.endpoints_[S].status # "CONNECTING"
       /\ DisconnectReturns =>
             /\ cm.endpoints_[S].status = "IDLE"
             /\ cm'.endpoints_[S].trans = "none"
             /\ cmth'.app.pc = "idle"
       /\ (cmth.app.pc = "disconnect" /\ ~DisconnectReturns) =>
             cm'.endpoints_[S].trans = cm.endpoints_[S].trans
       /\ (ConnectWakes /\ cm.endpoints_[S].status = "IDLE") =>
             /\ cmth'.app.pc = "loop"
             /\ ~cmlog'.install.done
       /\ (cmth.app.pc = "loop" /\ cmth'.app.pc # "loop"
              /\ cm.endpoints_[S].status = "IDLE") =>
             /\ cmth'.app.pc = "wait"
             /\ Len(cmlog'.attempts) = Len(cmlog.attempts) + 1
             /\ cm'.endpoints_[S].cm_id # cm.endpoints_[S].cm_id
      ]_allvars

\* a Connect that woke up IDLE after a DISCONNECTED event made a second
\* attempt and returned, and a later Endpoint::Disconnect has returned too
C39_Witness ==
    /\ cmlog.install.done /\ cmlog.retries >= 1 /\ cmenv.nrej = 0
    /\ Len(cmlog.attempts) >= 2
    /\ cmth.app.pc = "idle"
    /\ cm.endpoints_[S].status = "IDLE" /\ cm.endpoints_[S].trans = "none"
    /\ ~cm.fatal

(***************************************************************************)
(*                  CONTROL MESSAGES BETWEEN DATA MESSAGES                 *)
(***************************************************************************)
\* the control messages the worker sends in a run
MaxCtrlMsgs == 3

CtrlInit == MainIdle /\ AuxIdle

\* the worker pushes and sends control messages in any order; the server
\* answers the pushes
CtrlNext ==
    \/ \E k \in Keys : \E sa \in PushArrays(k) : WorkerPush(k, sa)
    \/ SendControl(MaxCtrlMsgs)
    \/ \E n \in Nodes : \E side \in Sides : Deliver(n, side)
    \/ \E n \in Nodes : Poll(n)
    \/ \E n \in Nodes : Receive(n)
    \/ ServerHandle("store")
    \/ WorkerHandle

SpecCtrl == CtrlInit /\ [][CtrlNext]_allvars

\* the address caches and the pending table of a node
AddrTables(v) == <<v.push_addr_, v.pull_addr_, v.msgbuf_cache_>>

\* the completion at the head of the queue of node n is the RendezvousReply
\* to a message that is not a valid push/pull
ControlReplyAtHead(n) ==
    /\ van[n].cq # << >>
    /\ LET wc == Head(van[n].cq) IN
       /\ wc.ok /\ wc.opcode = "RECV" /\ wc.imm_data = kRendezvousReply
       /\ LET mb == van[n].ep[wc.endpoint].rxbuf[wc.wr_id[2]].origin_addr[2] IN
          /\ mb \in DOMAIN van[n].msgbufs
          /\ \/ van[n].msgbufs[mb].inline_buf[2].control
             \/ van[n].msgbufs[mb].inline_buf[2].simple_app

\* C15: a message that is not a valid push/pull is sent with exactly one
\* RendezvousStart whatever was sent before; sending it leaves push_addr_,
\* pull_addr_ and msgbuf_cache_ as they were, and so does the handling of
\* its RendezvousReply.
C15_ControlAlwaysRendezvous ==
    [][/\ app'.nctrl # app.nctrl =>
            /\ ~app'.last.valid
            /\ app'.last.posted = <<"SEND_WITH_IMM">>
            /\ AddrTables(van'[W]) = AddrTables(van[W])
       /\ \A n \in Nodes :
            ControlReplyAtHead(n) /\ van'[n].cq = Tail(van[n].cq) =>
                AddrTables(van'[n]) = AddrTables(van[n])]_allvars

\* the second control message went out with a RendezvousStart while the push
\* cache had an entry for the peer; the reply to the first one was handled and
\* its buffer is released
C15_Witness ==
    /\ app.nctrl >= 2
    /\ ~app.last.valid
    /\ app.last.posted = <<"SEND_WITH_IMM">>
    /\ \E kr \in KeyPeer : van[W].push_addr_[kr] # NULL
    /\ DOMAIN van[W].msgbufs = {van[W].nmsgbuf}
    /\ ~van[W].fatal

MaxReconnects == 1

ReconnInit == MainIdle /\ AuxIdle

\* nothing of the connection of the worker to the server is in flight
AtRest ==
    /\ \A n \in Nodes : /\ ~van[n].fatal /\ ~van[n].stuck
                        /\ van[n].cq = << >>
                        /\ van[n].recv_buffers_ = << >>
                        /\ van[n].msgbufs = << >>
                        /\ app.inbox[n] = << >>
                        /\ \A side \in Sides : \A i \in DOMAIN van[n].ep[side].sq :
                              van[n].ep[side].sq[i].done
    /\ \A k \in Keys : app.pending[k] = << >>

\* RDMA_CM_EVENT_DISCONNECTED for the connection of the worker to the server,
\* handled by OnDisconnected on both ends: the status of the endpoint becomes
\* IDLE and nothing else changes
EndpointDisconnected ==
    /\ AtRest
    /\ app.nreconn < MaxReconnects
    /\ van[W].ep["out"].status = "CONNECTED"
    /\ van' = [van EXCEPT ![W].ep["out"].status = "IDLE",
                          ![S].ep["in"].status = "IDLE"]
    /\ UNCHANGED <<shm, app, apvars, auxvars>>

\* Connect(server) of the worker after that: the endpoint stored for the
\* server is erased and a new one is connected; the server accepts with a new
\* incoming endpoint.  The members of the van itself stay as they are
ReConnect ==
    /\ van[W].ep["out"].status = "IDLE"
    /\ ~van[W].fatal
    /\ van' = [van EXCEPT ![W].ep["out"] = EndpointInit("RDMA", FALSE),
                          ![S].ep["in"] = EndpointInit("RDMA", FALSE)]
    /\ app' = [app EXCEPT !.nreconn = @ + 1, !.rdvdone[W] = {}]
    /\ UNCHANGED <<shm, apvars, auxvars>>

ReconnNext ==
    \/ \E k \in Keys : \E sa \in PushArrays(k) : WorkerPush(k, sa)
    \/ \E k \in Keys : WorkerPull(k)
    \/ \E n \in Nodes : \E side \in Sides : Deliver(n, side)
    \/ \E n \in Nodes : Poll(n)
    \/ \E n \in Nodes : Receive(n)
    \/ ServerHandle("store")
    \/ WorkerHandle
    \/ EndpointDisconnected
    \/ ReConnect

SpecReconn == ReconnInit /\ [][ReconnNext]_allvars

\* C14: after a DISCONNECTED event and a later Connect, the first valid
\* push/pull message of the worker for a (key, peer, direction) that had no
\* rendezvous on the new connection posts a RendezvousStart: no address
\* obtained over the previous connection is written to.
C14_RendezvousAfterReconnect ==
    /\ app.nreconn > 0
    /\ app.last.node = W /\ app.last.valid /\ ~app.last.had /\ ~app.last.fatal
    => \E i \in DOMAIN app.last.posted : app.last.posted[i] = "SEND_WITH_IMM"

(***************************************************************************)
(*           THE THREADS THAT SHARE THE TABLES OF THE VAN                  *)
(***************************************************************************)
\* the calls each thread makes in a run
MaxCalls == 1

\* the thread in SendMsg, the CQ poller, the thread in Connect, the CM poller
AppThread == "app"
CQPoller == "cq"
ConnectThread == "connect"
CMPoller == "cm"
LockThreads == {AppThread, CQPoller, ConnectThread, CMPoller}

Mutexes == {"addr_mu_", "local_mu_"}
AddrTabs == {"push_addr_", "pull_addr_", "msgbuf_cache_"}
ConnTabs == {"endpoints_", "is_local_", "incoming_"}

\* the steps of a call: taking and releasing a mutex, reading and changing a table
Take(mu) == <<"lock", mu>>
Release(mu) == <<"unlock", mu>>
Rd(tab) == <<"rd", tab>>
Wr(tab) == <<"wr", tab>>
AddrOf(is_push) == IF is_push THEN "push_addr_" ELSE "pull_addr_"

\* RDMAVan::HasRemoteInfo: the lock guard, the find in the cache of the
\* direction, the emplace into msgbuf_cache_ when nothing was found
HasRemoteInfoSteps(is_push, found) ==
    <<Take("addr_mu_"), Rd(AddrOf(is_push))>>
    \o (IF found THEN << >> ELSE <<Wr("msgbuf_cache_")>>)
    \o <<Release("addr_mu_")>>

\* RDMAVan::GetRemoteInfo
GetRemoteInfoSteps(is_push) ==
    <<Take("addr_mu_"), Rd(AddrOf(is_push)), Release("addr_mu_")>>

\* RDMAVan::StoreRemoteInfo: the find, then the lock guard, the reads of the
\* pending entry, the store into the cache of the direction and the erase
StoreRemoteInfoSteps(is_push, pending) ==
    <<Rd("msgbuf_cache_")>>
    \o (IF ~pending THEN << >>
        ELSE <<Take("addr_mu_"), Rd("msgbuf_cache_"), Wr(AddrOf(is_push)),
               Wr("msgbuf_cache_"), Release("addr_mu_")>>)

\* RDMAVan::SendMsg as far as it uses the tables: the lookup of the endpoint,
\* then for a valid push/pull HasRemoteInfo and, when it found the address,
\* GetRemoteInfo
SendMsgSteps(valid, is_push, found) ==
    <<Rd("endpoints_")>>
    \o (IF ~valid THEN << >>
        ELSE HasRemoteInfoSteps(is_push, found)
             \o (IF found THEN GetRemoteInfoSteps(is_push) ELSE << >>))

\* RDMAVan::Connect as far as it uses the tables: is_local_[node.id] is
\* assigned, under local_mu_ only when IPC is enabled; the endpoint is looked
\* up, erased when there is one, and created; is_local_[node.id] is read
ConnectSteps(disable_ipc, again) ==
    (IF disable_ipc THEN <<Wr("is_local_")>>
     ELSE <<Take("local_mu_"), Wr("is_local_"), Release("local_mu_")>>)
    \o <<Rd("endpoints_")>>
    \o (IF again THEN <<Wr("endpoints_")>> ELSE << >>)
    \o <<Wr("endpoints_"), Rd("is_local_")>>

\* RDMAVan::OnConnectRequest as far as it uses the tables: the emplace into
\* incoming_ and is_local_[remote_ctx->node], which inserts the entry of a
\* node that has none
OnConnectRequestSteps(known) ==
    <<Wr("incoming_"), IF known THEN Rd("is_local_") ELSE Wr("is_local_")>>

\* RDMAVan::OnRejected as far as it uses the tables
OnRejectedSteps == <<Rd("endpoints_")>>

\* the calls of a thread
Repertoire(t) ==
    IF t = AppThread
    THEN {SendMsgSteps(v[1], v[2], v[3]) :
             v \in {<<FALSE, FALSE, FALSE>>} \cup ({TRUE} \X BOOLEAN \X BOOLEAN)}
    ELSE IF t = CQPoller
    THEN {StoreRemoteInfoSteps(p, pending) : p \in BOOLEAN, pending \in BOOLEAN}
    ELSE IF t = ConnectThread
    THEN {ConnectSteps(d, again) : d \in BOOLEAN, again \in BOOLEAN}
    ELSE {OnConnectRequestSteps(known) : known \in BOOLEAN} \cup {OnRejectedSteps}

\* a thread outside a call
Outside == [prog |-> << >>, i |-> 1, in |-> FALSE]

LockInit ==
    /\ MainIdle
    /\ BindIdle
    /\ ConnIdle
    /\ CacheIdle
    /\ ExtIdle
    /\ lk = [pc    |-> [t \in LockThreads |-> Outside],
             mu    |-> [m \in Mutexes |-> "none"],
             calls |-> [t \in LockThreads |-> 0]]

\* the step thread t is at
StepOf(t) == lk.pc[t].prog[lk.pc[t].i]
InCall(t) == lk.pc[t].i <= Len(lk.pc[t].prog)

\* thread t enters one of its calls
Call(t) ==
    /\ ~InCall(t)
    /\ lk.calls[t] < MaxCalls
    /\ \E prog \in Repertoire(t) :
          lk' = [lk EXCEPT !.pc[t] = [prog |-> prog, i |-> 1, in |-> FALSE],
                           !.calls[t] = @ + 1]
    /\ UNCHANGED <<vars, apvars, bindvars, cmvars, rcvars, extvars>>

\* std::lock_guard: the thread waits until the mutex is free
Lock(t) ==
    /\ InCall(t)
    /\ StepOf(t)[1] = "lock"
    /\ lk.mu[StepOf(t)[2]] = "none"
    /\ lk' = [lk EXCEPT !.mu[StepOf(t)[2]] = t, !.pc[t].i = @ + 1]
    /\ UNCHANGED <<vars, apvars, bindvars, cmvars, rcvars, extvars>>

\* the end of the scope of the lock guard
Unlock(t) ==
    /\ InCall(t)
    /\ StepOf(t)[1] = "unlock"
    /\ lk' = [lk EXCEPT !.mu[StepOf(t)[2]] = "none", !.pc[t].i = @ + 1]
    /\ UNCHANGED <<vars, apvars, bindvars, cmvars, rcvars, extvars>>

\* a call of a member of the table begins
BeginAccess(t) ==
    /\ InCall(t)
    /\ StepOf(t)[1] \in {"rd", "wr"}
    /\ ~lk.pc[t].in
    /\ lk' = [lk EXCEPT !.pc[t].in = TRUE]
    /\ UNCHANGED <<vars, apvars, bindvars, cmvars, rcvars, extvars>>

\* and returns
EndAccess(t) ==
    /\ InCall(t)
    /\ lk.pc[t].in
    /\ lk' = [lk EXCEPT !.pc[t].in = FALSE, !.pc[t].i = @ + 1]
    /\ UNCHANGED <<vars, apvars, bindvars, cmvars, rcvars, extvars>>

LockNext ==
    \E t \in LockThreads :
        \/ Call(t)
        \/ Lock(t)
        \/ Unlock(t)
        \/ BeginAccess(t)
        \/ EndAccess(t)

SpecLock == LockInit /\ [][LockNext]_allvars

\* thread t is inside a member call of table tab, of the kind "rd" or "wr"
Accessing(t, tab, kind) ==
    /\ InCall(t)
    /\ lk.pc[t].in
    /\ StepOf(t) = <<kind, tab>>

\* two threads are inside member calls of one table of tabs, one of them
\* changing it
Race(tabs) ==
    \E t1 \in LockThreads : \E t2 \in LockThreads \ {t1} : \E tab \in tabs :
        /\ Accessing(t1, tab, "wr")
        /\ \E kind \in {"rd", "wr"} : Accessing(t2, tab, kind)

\* C16: every read and every write of msgbuf_cache_, push_addr_ and
\* pull_addr_ is made by a thread that holds addr_mu_, so no two threads are
\* in these tables at the same time.
C16_AddrTablesUnderLock ==
    /\ \A t \in LockThreads : \A tab \in AddrTabs : \A kind \in {"rd", "wr"} :
          Accessing(t, tab, kind) => lk.mu["addr_mu_"] = t
    /\ ~Race(AddrTabs)

\* C17: every change of endpoints_, is_local_ and incoming_ is made by the CM
\* poller or by Connect while it holds a mutex, and no other thread is in the
\* table while it is changed.
C17_ConnTablesUnderLock ==
    /\ \A t \in LockThreads : \A tab \in ConnTabs :
          Accessing(t, tab, "wr") =>
              /\ t \in {CMPoller, ConnectThread}
              /\ \E m \in Mutexes : lk.mu[m] = t
    /\ ~Race(ConnTabs)


(***************************************************************************)
(*            THE ADDRESS CACHE OF A VAN WITH TWO RECEIVERS                *)
(***************************************************************************)
\* number of valid push/pull messages the van sends
MaxCacheSends == 5

\* the ids of the nodes endpoints_ has an endpoint for
Receivers == Nodes

\* what the RendezvousReply of receiver r for message buffer mb carries: the
\* landing area r allocated, its rkey and the index in r's address pool
ReplyOf(r, mb) == <<<<"land", r, mb>>, <<"rkey", r>>, mb>>

\* the van after Connect to both receivers: empty caches, no message pending
CacheInit ==
    /\ MainIdle
    /\ BindIdle
    /\ ConnIdle
    /\ LockIdle
    /\ ExtIdle
    /\ rc = [pc      |-> "run",
             v       |-> [push_addr_    |-> [kr \in KeyPeer |-> NULL],
                          pull_addr_    |-> [kr \in KeyPeer |-> NULL],
                          msgbuf_cache_ |-> << >>],
             nmsgbuf |-> 0,
             nsend   |-> 0,
             replied |-> [x \in Keys \X BOOLEAN \X Receivers |-> NULL],
             last    |-> [found |-> FALSE, key |-> 0, is_push |-> FALSE, recver |-> NULL,
                          tuple |-> NULL]]

\* RDMAVan::SendMsg of a valid push/pull message for key k to receiver r, from
\* HasRemoteInfo on: without an entry the message buffer waits for the
\* rendezvous, with one GetRemoteInfo's tuple goes to the transport.  The kv
\* layer has one message per key, direction and receiver in flight
CacheSend(k, is_push, r) ==
    LET mb == rc.nmsgbuf + 1
        h == HasRemoteInfo(rc.v, mb, k, is_push, r)
    IN  /\ rc.pc = "run"
        /\ rc.nsend < MaxCacheSends
        /\ \A b \in DOMAIN rc.v.msgbuf_cache_ : rc.v.msgbuf_cache_[b] # <<k, is_push, r>>
        /\ IF ~h.found
           THEN rc' = [rc EXCEPT !.v = h.v, !.nmsgbuf = mb, !.nsend = @ + 1,
                                 !.last = [found |-> FALSE, key |-> k, is_push |-> is_push,
                                           recver |-> r, tuple |-> NULL]]
           ELSE \E remote_addr_tuple \in GetRemoteInfo(h.v, k, is_push) :
                   rc' = [rc EXCEPT !.v = h.v, !.nsend = @ + 1,
                                    !.last = [found |-> TRUE, key |-> k, is_push |-> is_push,
                                              recver |-> r, tuple |-> remote_addr_tuple]]
        /\ UNCHANGED <<vars, apvars, bindvars, cmvars, lkvars, extvars>>

\* PollCQ handling the RendezvousReply for message buffer mb: StoreRemoteInfo
\* with the address, rkey and index the receiver of the message returned
CacheReply(mb) ==
    /\ rc.pc = "run"
    /\ mb \in DOMAIN rc.v.msgbuf_cache_
    /\ LET r == rc.v.msgbuf_cache_[mb][3]
           t == ReplyOf(r, mb)
       IN  rc' = [rc EXCEPT !.v = StoreRemoteInfo(rc.v, mb, t[1], t[2], t[3]),
                            !.replied[rc.v.msgbuf_cache_[mb]] = t]
    /\ UNCHANGED <<vars, apvars, bindvars, cmvars, lkvars, extvars>>

CacheNext ==
    \/ \E k \in Keys : \E is_push \in BOOLEAN : \E r \in Receivers : CacheSend(k, is_push, r)
    \/ \E mb \in 1 .. MaxCacheSends : CacheReply(mb)

SpecCache == CacheInit /\ [][CacheNext]_allvars

\* C26: the tuple handed to the transport for a cached (key, receiver,
\* direction) is the triple this receiver returned in its RendezvousReply for
\* that key and direction, whatever the cache holds for other receivers.
C26_CachedTupleOfReceiver ==
    (rc.pc = "run" /\ rc.last.found) =>
        rc.last.tuple = rc.replied[<<rc.last.key, rc.last.is_push, rc.last.recver>>]

(***************************************************************************)
(*       THE LANDING AREA OF A KEY AND THE VALUE WRITES THAT REACH IT      *)
(***************************************************************************)
\* the longest value and the number of pushes of the key
MaxLandVal == 12
MaxLandPush == 2

\* the specifications above, at rest
OldIdle == MainIdle /\ BindIdle /\ ConnIdle /\ LockIdle /\ CacheIdle
oldvars == <<vars, apvars, bindvars, cmvars, lkvars, rcvars>>

\* the message buffer PrepareData leaves for a push of val_len bytes whose
\* packed meta has meta_len bytes
LandMsgBuf(meta_len, val_len) ==
    LET data == <<SArray(KeysPtr(1), sizeofKey), SArray(BufPtr(1), val_len),
                  SArray(LensPtr(val_len), sizeofInt)>>
    IN  [inline_len |-> meta_len, data |-> data, mrs |-> data, reserved_context |-> NULL]

\* the RendezvousStart SendRendezvousBegin fills for that message
LandReq(meta_len, val_len) ==
    [meta_len    |-> meta_len,
     origin_addr |-> MsgBufPtr(1),
     data_num    |-> 3,
     data_len    |-> [i \in 1 .. 3 |-> LandMsgBuf(meta_len, val_len).data[i].size]]

\* the value write RDMAWriteWithImm posts for the message to the landing area
\* at remote_addr: the bytes [lo, hi) of the area
LandValueWrite(meta_len, val_len, remote_addr) ==
    LET e  == [free_write_ctx |-> CtxQueue("write", kWriteDepth), sq |-> << >>,
               ctxbuf |-> [c \in SendCtx |-> NULL]]
        r  == RDMAWriteWithImm(e, 1, LandMsgBuf(meta_len, val_len), remote_addr,
                               MempoolKey("recv"), 0)
        wr == SelectSeq(r.e.sq, LAMBDA w : w.opcode = "RDMA_WRITE")[1]
    IN  [lo |-> wr.remote_addr[3], hi |-> wr.remote_addr[3] + wr.len]

LandInit ==
    /\ OldIdle
    /\ LifeIdle
    /\ FabIdle
    /\ la = [pc |-> "idle", cached |-> FALSE, size |-> 0, npush |-> 0,
             meta_len |-> 0, val_len |-> 0, lo |-> 0, hi |-> 0]

\* SendMsg of a push of the key: with no address cached the transport starts
\* the rendezvous, otherwise it writes to the cached address
LandSendMsg(meta_len, val_len) ==
    /\ la.pc = "idle"
    /\ la.npush < MaxLandPush
    /\ la' = [la EXCEPT !.pc = IF la.cached THEN "write" ELSE "start",
                        !.npush = @ + 1, !.meta_len = meta_len, !.val_len = val_len]
    /\ UNCHANGED <<oldvars, lfvars, fbvars>>

\* the server's poller on the RendezvousStart: SendRendezvousReply allocates
\* the landing area
LandReply ==
    /\ la.pc = "start"
    /\ la' = [la EXCEPT !.pc = "reply",
                        !.size = LandingSize(TRUE, LandReq(la.meta_len, la.val_len))]
    /\ UNCHANGED <<oldvars, lfvars, fbvars>>

\* the sender's poller on the RendezvousReply: StoreRemoteInfo, then the writes
LandStore ==
    /\ la.pc = "reply"
    /\ la' = [la EXCEPT !.pc = "write", !.cached = TRUE]
    /\ UNCHANGED <<oldvars, lfvars, fbvars>>

\* the adapter executing the value write of the message
LandWrite ==
    /\ la.pc = "write"
    /\ LET w == LandValueWrite(la.meta_len, la.val_len, <<"land", 1, 0>>)
       IN  la' = [la EXCEPT !.pc = "idle", !.lo = w.lo, !.hi = w.hi]
    /\ UNCHANGED <<oldvars, lfvars, fbvars>>

LandNext ==
    \/ \E meta_len \in 1 .. MaxMetaLen : \E val_len \in 1 .. MaxLandVal :
           LandSendMsg(meta_len, val_len)
    \/ LandReply
    \/ LandStore
    \/ LandWrite

SpecLand == LandInit /\ [][LandNext]_allvars

\* C33: every byte of a value write lies inside the landing area that
\* SendRendezvousReply allocated for the key, for every meta length and value
\* length and also for a later push that goes to the cached area.
C33_ValueWriteInsideLanding ==
    (la.pc = "idle" /\ la.npush > 0) => la.hi <= la.size

(***************************************************************************)
(*        THE LIFETIME OF THE ENDPOINT STORED FOR A PEER                   *)
(***************************************************************************)
\* the calls of Connect for the peer, the messages the peer sends, the times
\* the peer disconnects
MaxLifeConnects == 2
MaxLifeMsgs == 2
MaxLifeDisconnects == 1

\* an Endpoint object: "live" from make_unique, "destructing" once ~Endpoint
\* has freed its buffers and destroyed the queue pair, "freed" after it
LifeEndpointNew == [state |-> "live", status |-> "IDLE", posted |-> 0]

\* no event is fetched
NoEvent == [event |-> "none", ep |-> 0]

LifeInit ==
    /\ OldIdle
    /\ LandIdle
    /\ FabIdle
    /\ lf = [pc |-> "run", eps |-> << >>, stored |-> 0,
             app |-> [pc |-> "idle", n |-> 0],
             events |-> << >>, ev |-> NoEvent, cq |-> << >>, wc |-> << >>,
             nmsg |-> 0, ndisc |-> 0,
             bad |-> [wc |-> FALSE, ev |-> FALSE]]

\* make_unique<Endpoint>() stored in endpoints_[node.id]
LifeCreate(l) ==
    [l EXCEPT !.eps = Append(@, LifeEndpointNew), !.stored = Len(l.eps) + 1,
              !.app.pc = "loop"]

\* Connect(node) up to the erase of the endpoint stored for the node: the
\* body of ~Endpoint frees the buffers of the contexts and destroys the queue
\* pair (its completions leave the completion queue); without a stored
\* endpoint the new one is created at once
LifeConnect_Enter ==
    /\ lf.pc = "run" /\ lf.app.pc = "idle" /\ lf.app.n < MaxLifeConnects
    /\ lf' = IF lf.stored = 0 THEN LifeCreate(lf)
             ELSE [lf EXCEPT !.eps[lf.stored].state = "destructing",
                             !.eps[lf.stored].posted = 0,
                             !.cq = SelectSeq(@, LAMBDA i : i # lf.stored),
                             !.app.pc = "destroy"]
    /\ UNCHANGED <<oldvars, lavars, fbvars>>

\* the end of ~Endpoint: rdma_destroy_id returns when no event of the
\* identifier is fetched and unacknowledged, its queued events are dropped;
\* the object is freed and the new Endpoint created
LifeConnect_Destroy ==
    /\ lf.pc = "run" /\ lf.app.pc = "destroy"
    /\ lf.ev.ep # lf.stored
    /\ lf' = LifeCreate([lf EXCEPT !.eps[lf.stored].state = "freed",
                                   !.events = SelectSeq(@, LAMBDA e : e.ep # lf.stored)])
    /\ UNCHANGED <<oldvars, lavars, fbvars>>

\* the connect loop: a new identifier whose context is the endpoint, and
\* rdma_resolve_addr
LifeConnect_Attempt ==
    /\ lf.pc = "run" /\ lf.app.pc = "loop"
    /\ lf' = [lf EXCEPT !.eps[lf.stored].status = "CONNECTING",
                        !.events = Append(@, [event |-> "ADDR_RESOLVED", ep |-> lf.stored]),
                        !.app.pc = "wait"]
    /\ UNCHANGED <<oldvars, lavars, fbvars>>

\* the wait of the connect loop ending with CONNECTED, and the return
LifeConnect_Return ==
    /\ lf.pc = "run" /\ lf.app.pc = "wait"
    /\ lf.eps[lf.stored].status = "CONNECTED"
    /\ lf' = [lf EXCEPT !.app.pc = "idle", !.app.n = @ + 1]
    /\ UNCHANGED <<oldvars, lavars, fbvars>>

\* PollEvents: rdma_get_cm_event
LifeGetEvent ==
    /\ lf.pc = "run" /\ lf.ev = NoEvent /\ lf.events # << >>
    /\ lf' = [lf EXCEPT !.ev = Head(lf.events), !.events = Tail(@)]
    /\ UNCHANGED <<oldvars, lavars, fbvars>>

\* PollEvents: the handler of the fetched event, reached through the context
\* of its identifier, and rdma_ack_cm_event
LifeHandleEvent ==
    /\ lf.pc = "run" /\ lf.ev # NoEvent
    /\ LET i == lf.ev.ep
           l == [lf EXCEPT !.ev = NoEvent,
                           !.bad.ev = @ \/ (lf.ev.event # "ADDR_RESOLVED"
                                            /\ lf.eps[i].state # "live")]
       IN  lf' = IF lf.ev.event = "ADDR_RESOLVED"
                 THEN [l EXCEPT !.events = Append(@, [event |-> "ROUTE_RESOLVED", ep |-> i])]
                 ELSE IF lf.ev.event = "ROUTE_RESOLVED"
                 THEN [l EXCEPT !.eps[i].posted = kRxDepth,
                                !.events = Append(@, [event |-> "ESTABLISHED", ep |-> i])]
                 ELSE IF lf.ev.event = "ESTABLISHED"
                 THEN [l EXCEPT !.eps[i].status = "CONNECTED"]
                 ELSE [l EXCEPT !.eps[i].status = "IDLE"]
    /\ UNCHANGED <<oldvars, lavars, fbvars>>

\* the peer closes the connection: RDMA_CM_EVENT_DISCONNECTED is queued
LifePeerDisconnect ==
    /\ lf.pc = "run" /\ lf.stored # 0 /\ lf.ndisc < MaxLifeDisconnects
    /\ lf.eps[lf.stored].state = "live" /\ lf.eps[lf.stored].status = "CONNECTED"
    /\ lf' = [lf EXCEPT !.events = Append(@, [event |-> "DISCONNECTED", ep |-> lf.stored]),
                        !.ndisc = @ + 1]
    /\ UNCHANGED <<oldvars, lavars, fbvars>>

\* a message of the peer consumes a posted receive of the endpoint: its
\* completion enters the completion queue
LifeArrive ==
    /\ lf.pc = "run" /\ lf.stored # 0 /\ lf.nmsg < MaxLifeMsgs
    /\ lf.eps[lf.stored].state = "live" /\ lf.eps[lf.stored].status = "CONNECTED"
    /\ lf.eps[lf.stored].posted > 0
    /\ lf' = [lf EXCEPT !.eps[lf.stored].posted = @ - 1,
                        !.cq = Append(@, lf.stored), !.nmsg = @ + 1]
    /\ UNCHANGED <<oldvars, lavars, fbvars>>

\* PollCQ: ibv_poll_cq copies the completions into the array wc
LifePollCQ ==
    /\ lf.pc = "run" /\ lf.wc = << >> /\ lf.cq # << >>
    /\ lf' = [lf EXCEPT !.wc = lf.cq, !.cq = << >>]
    /\ UNCHANGED <<oldvars, lavars, fbvars>>

\* PollCQ: one completion of the array dispatched: the endpoint is read from
\* the context the completion names, the receive is posted again
LifeDispatch ==
    /\ lf.pc = "run" /\ lf.wc # << >>
    /\ LET i == Head(lf.wc) IN
       lf' = [lf EXCEPT !.wc = Tail(@),
                        !.bad.wc = @ \/ lf.eps[i].state # "live",
                        !.eps[i].posted = IF lf.eps[i].state = "live" THEN @ + 1 ELSE @]
    /\ UNCHANGED <<oldvars, lavars, fbvars>>

LifeNext ==
    \/ LifeConnect_Enter
    \/ LifeConnect_Destroy
    \/ LifeConnect_Attempt
    \/ LifeConnect_Return
    \/ LifeGetEvent
    \/ LifeHandleEvent
    \/ LifePeerDisconnect
    \/ LifeArrive
    \/ LifePollCQ
    \/ LifeDispatch

SpecLife == LifeInit /\ [][LifeNext]_allvars

\* C34: whenever the CQ poller dispatches a completion or the CM poller
\* handles an event, the Endpoint it reaches through the context is a live
\* object: Connect never destroys an endpoint that a polled completion or a
\* fetched event still refers to.
C34_EndpointAliveAtDispatch ==
    lf.pc = "run" => (~lf.bad.wc /\ ~lf.bad.ev)

(***************************************************************************)
(*        A SENDER THAT DOES NOT WAIT FOR THE ANSWERS TO ITS MESSAGES      *)
(***************************************************************************)
\* the messages the worker sends
MaxPipeOps == 3

PipeInit == MainIdle /\ AuxIdle

\* SendMsg of message msg by the worker; the call is number ts, which the
\* message carries as its timestamp
PipeSendMsg(msg, key) ==
    /\ ~van[W].fatal
    /\ app.nops < MaxPipeOps
    /\ \E out \in SendMsg(van[W], shm, msg) :
          /\ ~out.blocked
          /\ van' = [van EXCEPT ![W] = out.v]
          /\ shm' = out.sh
          /\ app' = [app EXCEPT
                !.nops = msg.meta.ts,
                !.sentpush = IF IsValidPushpull(msg)
                             THEN HeapPut(@, msg.meta.ts,
                                      [keys |-> ReadMem(van[W], shm, msg.data[1].ptr,
                                                        msg.data[1].size),
                                       vals |-> ReadMem(van[W], shm, msg.data[2].ptr,
                                                        msg.data[2].size),
                                       lens |-> ReadMem(van[W], shm, msg.data[3].ptr,
                                                        msg.data[3].size)])
                             ELSE @,
                !.last = CallRecord(W, msg, key, out)]
    /\ UNCHANGED <<apvars, auxvars>>

\* the worker pushes len bytes of key k without waiting for the response to
\* an earlier request of the key
PipePush(k, len) ==
    PipeSendMsg([meta |-> NewMeta(W, S, 0, TRUE, TRUE, FALSE, 3, app.nops + 1),
                 data |-> <<SArray(KeysPtr(k), sizeofKey), SArray(WBuf(k), len),
                            SArray(LensPtr(len), sizeofInt)>>], k)

\* the worker sends a control message
PipeControl ==
    PipeSendMsg([meta |-> NewMeta(W, S, 0, TRUE, FALSE, TRUE, 0, app.nops + 1),
                 data |-> << >>], 0)

\* the server's receiving thread is the only consumer: what it was handed
\* stays in the inbox in the order of the RecvMsg calls
PipeNext ==
    \/ \E k \in Keys : \E len \in 1 .. MaxValLen : PipePush(k, len)
    \/ PipeControl
    \/ \E n \in Nodes : \E side \in Sides : Deliver(n, side)
    \/ \E n \in Nodes : Poll(n)
    \/ Receive(S)

SpecPipe == PipeInit /\ [][PipeNext]_allvars

\* the calls whose messages RecvMsg has returned on the server, in the order
\* of the hand-offs
Handed == [i \in DOMAIN app.inbox[S] |-> app.inbox[S][i].meta.ts]

\* C36: every SendMsg call leads to exactly one hand-off to RecvMsg of the
\* receiver: no call is handed twice and, once nothing is in flight any more,
\* every call has been handed, also when two first messages of one key
\* are both sent before either RendezvousReply has arrived.
C36_HandedExactlyOnce ==
    /\ NoDuplicate(Handed)
    /\ \A i \in DOMAIN Handed : Handed[i] \in 1 .. app.nops

\* C37: a landing buffer whose message waits for RecvMsg is not written by a
\* later message of the same key, peer and direction: no two hand-offs that
\* RecvMsg has not taken yet name the same buffer context, so each message
\* sent through a cached address is read with its own metadata and values.
C37_LandingNotOverwritten ==
    \A n \in Nodes : \A i, j \in DOMAIN van[n].recv_buffers_ :
        van[n].recv_buffers_[i].buf_ctx = van[n].recv_buffers_[j].buf_ctx => i = j

\* C38: the messages of the worker are handed to RecvMsg of the server in the
\* order of the SendMsg calls, also when an earlier message goes through a
\* rendezvous and a later one through a cached address.
C38_HandedInSendOrder ==
    \A i, j \in DOMAIN Handed : i < j => Handed[i] <= Handed[j]

\* ---------------------------------------------------------------------------
\* THE FABRIC VAN'S ADDRESS EXCHANGE OVER ZMQ
\* ---------------------------------------------------------------------------
\* Two fabric vans of different roles.  Each has an application thread that
\* calls Connect and an event thread that runs PollEvents on the messages the
\* ZMQ van delivers.  The ZMQ van is a table of sockets (id -> node) and a
\* queue per receiver; a message for an id it has no socket for is not
\* delivered.

MaxFabConnects == 2
kUnseenBase == 30000

FabNodes == 1 .. 2
FabRole(n) == IF n = 1 THEN "server" ELSE "worker"
FabName(n) == <<"ep", n>>
FabNoName == <<"ep", 0>>

FabricEndpointNew ==
    [status |-> "IDLE", trans |-> "none", peer_addr |-> FabNoName, node_id |-> 0]

FabVanNew ==
    [endpoints_       |-> << >>,
     hostport_id_map_ |-> << >>,
     senders_         |-> << >>,
     incoming_        |-> 0,
     cq_polling_thread_ |-> FALSE,
     fatal            |-> FALSE,
     zsent            |-> << >>,
     app              |-> [pc |-> "idle", peer |-> 0, ncall |-> 0]]

FabInit ==
    /\ OldIdle
    /\ LandIdle
    /\ LifeIdle
    /\ fb = [pc  |-> "run",
             v   |-> [n \in FabNodes |-> FabVanNew],
             net |-> [n \in FabNodes |-> << >>]]

\* ZMQVan::Connect: a socket to the node, under the node's id
ZmqConnect(v, id, node) == [v EXCEPT !.senders_ = HeapPut(@, id, node)]

\* ZMQVan::Send as the fabric van uses it: the call is recorded, the message
\* is queued at the node of the socket
ZmqSend(f, n, msg) ==
    LET v    == f.v[n]
        sent == [f EXCEPT !.v[n].zsent = Append(@, msg)]
    IN  IF msg.recver \in DOMAIN v.senders_
        THEN [sent EXCEPT !.net[v.senders_[msg.recver]] = Append(@, msg)]
        ELSE sent

\* Connect up to the loop: nothing for a node of the same role, otherwise
\* the hostport is recorded and a new endpoint replaces the old one
FabConnect_Enter(n, p) ==
    /\ fb.pc = "run"
    /\ fb.v[n].app.pc = "idle"
    /\ ~fb.v[n].fatal
    /\ fb.v[n].app.ncall < MaxFabConnects
    /\ IF FabRole(p) = FabRole(n)
       THEN fb' = [fb EXCEPT !.v[n].app.ncall = @ + 1]
       ELSE fb' = [fb EXCEPT
                !.v[n].hostport_id_map_ = HeapPut(@, p, p),
                !.v[n].endpoints_ =
                    HeapPut(HeapDel(@, p), p, [FabricEndpointNew EXCEPT !.node_id = p]),
                !.v[n].app = [pc |-> "loop", peer |-> p, ncall |-> @.ncall + 1]]
    /\ UNCHANGED <<oldvars, lavars, lfvars>>

\* one round of the loop: CONNECTING, the ZMQ socket, the ADDR_REQUEST
FabConnect_Request(n) ==
    LET p   == fb.v[n].app.peer
        req == [cmd |-> "ADDR_REQUEST", recver |-> p, hostport |-> n,
                aux_id |-> p, endpoint_name |-> FabNoName]
        f1  == [fb EXCEPT !.v[n].endpoints_[p].status = "CONNECTING",
                          !.v[n] = ZmqConnect(@, p, p)]
    IN  /\ fb.pc = "run"
        /\ fb.v[n].app.pc = "loop"
        /\ fb.v[n].endpoints_[p].status # "CONNECTED"
        /\ fb' = [ZmqSend(f1, n, req) EXCEPT !.v[n].app.pc = "wait"]
        /\ UNCHANGED <<oldvars, lavars, lfvars>>

\* the wait ends once the status is no longer CONNECTING; CONNECTED leaves
\* the loop and installs the transport
FabConnect_Wake(n) ==
    LET p == fb.v[n].app.peer
    IN  /\ fb.pc = "run"
        /\ fb.v[n].app.pc = "wait"
        /\ fb.v[n].endpoints_[p].status # "CONNECTING"
        /\ IF fb.v[n].endpoints_[p].status = "CONNECTED"
           THEN fb' = [fb EXCEPT !.v[n].endpoints_[p].trans = "fabric",
                                 !.v[n].app.pc = "idle"]
           ELSE fb' = [fb EXCEPT !.v[n].app.pc = "loop"]
        /\ UNCHANGED <<oldvars, lavars, lfvars>>

FabOnConnectRequest_SenderId(f, n, msg) ==
    LET v0     == f.v[n]
        unseen == msg.hostport \notin DOMAIN v0.hostport_id_map_
        new_id == kUnseenBase + Cardinality(DOMAIN v0.hostport_id_map_)
        v1     == IF unseen
                  THEN [ZmqConnect(v0, new_id, msg.hostport) EXCEPT
                            !.hostport_id_map_ = HeapPut(@, msg.hostport, new_id)]
                  ELSE v0
        reply  == [cmd |-> "ADDR_RESOLVED", recver |-> v1.hostport_id_map_[msg.hostport],
                   hostport |-> n, aux_id |-> v1.hostport_id_map_[msg.hostport],
                   endpoint_name |-> FabName(n)]
        f1     == [f EXCEPT !.v[n] = [v1 EXCEPT !.incoming_ = @ + 1]]
    IN  ZmqSend(f1, n, reply)

\* OnConnectRequest: an unseen hostport gets a synthetic id and a socket;
\* the reply carries this van's endpoint name and the request's aux_id
FabOnConnectRequest(f, n, msg) ==
    LET v0     == f.v[n]
        unseen == msg.hostport \notin DOMAIN v0.hostport_id_map_
        new_id == kUnseenBase + Cardinality(DOMAIN v0.hostport_id_map_)
        v1     == IF unseen
                  THEN [ZmqConnect(v0, new_id, msg.hostport) EXCEPT
                            !.hostport_id_map_ = HeapPut(@, msg.hostport, new_id)]
                  ELSE v0
        reply  == [cmd |-> "ADDR_RESOLVED", recver |-> v1.hostport_id_map_[msg.hostport],
                   hostport |-> n, aux_id |-> msg.aux_id,
                   endpoint_name |-> FabName(n)]
        f1     == [f EXCEPT !.v[n] = [v1 EXCEPT !.incoming_ = @ + 1]]
    IN  ZmqSend(f1, n, reply)

\* OnConnected: the endpoint named by aux_id takes the peer's address and
\* becomes CONNECTED; the CQ poller starts with the first one
FabOnConnected(f, n, msg) ==
    IF msg.aux_id \notin DOMAIN f.v[n].endpoints_
    THEN [f EXCEPT !.v[n].fatal = TRUE]
    ELSE [f EXCEPT !.v[n].endpoints_[msg.aux_id].peer_addr = msg.endpoint_name,
                    !.v[n].endpoints_[msg.aux_id].status = "CONNECTED",
                    !.v[n].cq_polling_thread_ = TRUE]

FabPollEvents(n) ==
    /\ fb.pc = "run"
    /\ ~fb.v[n].fatal
    /\ fb.net[n] # << >>
    /\ LET msg == Head(fb.net[n])
           f0  == [fb EXCEPT !.net[n] = Tail(@)]
       IN  fb' = IF msg.cmd = "ADDR_REQUEST"
                 THEN FabOnConnectRequest(f0, n, msg)
                 ELSE FabOnConnected(f0, n, msg)
    /\ UNCHANGED <<oldvars, lavars, lfvars>>

FabNext ==
    \/ \E n, p \in FabNodes : FabConnect_Enter(n, p)
    \/ \E n \in FabNodes : FabConnect_Request(n)
    \/ \E n \in FabNodes : FabConnect_Wake(n)
    \/ \E n \in FabNodes : FabPollEvents(n)

SpecFabric == FabInit /\ [][FabNext]_allvars

\* the step is PollEvents of n taking a message of this command
FabHandling(n, cmd) ==
    /\ fb.net[n] # << >>
    /\ Head(fb.net[n]).cmd = cmd
    /\ fb'.net[n] = Tail(fb.net[n])

FabRequestFor(n, p) ==
    [cmd |-> "ADDR_REQUEST", recver |-> p, hostport |-> n,
     aux_id |-> p, endpoint_name |-> FabNoName]

\* C40: Connect to a peer of another role always sends an ADDR_REQUEST over
\* the ZMQ van for the newly created endpoint, and installs the fabric
\* transport only after the peer's ADDR_RESOLVED has been handled and has set
\* the endpoint CONNECTED; the responder answers every ADDR_REQUEST with one
\* ADDR_RESOLVED that carries its own endpoint name and the request's aux_id.
C40_AddressExchangeBeforeTransport ==
    [][fb.pc = "run" => \A n \in FabNodes :
        LET v  == fb.v[n]
            vn == fb'.v[n]
            p  == vn.app.peer
        IN  \* a Connect to another role creates an endpoint that enters the loop
            /\ (v.app.pc = "idle" /\ vn.app.pc = "loop")
                   => /\ FabRole(p) # FabRole(n)
                      /\ vn.endpoints_[p] = [FabricEndpointNew EXCEPT !.node_id = p]
            \* the only way out of "loop" sends one ADDR_REQUEST to the peer
            /\ (v.app.pc = "loop" /\ vn.app.pc # "loop")
                   => /\ vn.app.pc = "wait"
                      /\ vn.zsent = Append(v.zsent, FabRequestFor(n, p))
                      /\ fb'.net[p] = Append(fb.net[p], FabRequestFor(n, p))
                      /\ vn.endpoints_[p].status = "CONNECTING"
            \* Connect returns only from the wait, on a CONNECTED endpoint
            /\ (v.app.pc # "idle" /\ vn.app.pc = "idle") => v.app.pc = "wait"
            /\ \A q \in DOMAIN vn.endpoints_ :
                  \* the transport is installed on an endpoint that a handled
                  \* ADDR_RESOLVED has set CONNECTED with the peer's name
                  /\ vn.endpoints_[q].trans # "none"
                        => /\ q \in DOMAIN v.endpoints_
                           /\ v.endpoints_[q].status = "CONNECTED"
                           /\ v.endpoints_[q].peer_addr = FabName(q)
                  /\ (vn.endpoints_[q].status = "CONNECTED"
                        /\ (q \notin DOMAIN v.endpoints_
                              \/ v.endpoints_[q].status # "CONNECTED"))
                        => /\ FabHandling(n, "ADDR_RESOLVED")
                           /\ Head(fb.net[n]).aux_id = q
                           /\ vn.endpoints_[q].peer_addr = Head(fb.net[n]).endpoint_name
            \* one ADDR_RESOLVED per ADDR_REQUEST, with this van's name and
            \* the request's aux_id
            /\ FabHandling(n, "ADDR_REQUEST")
                   => /\ Len(vn.zsent) = Len(v.zsent) + 1
                      /\ vn.zsent[Len(vn.zsent)].cmd = "ADDR_RESOLVED"
                      /\ vn.zsent[Len(vn.zsent)].endpoint_name = FabName(n)
                      /\ vn.zsent[Len(vn.zsent)].aux_id = Head(fb.net[n]).aux_id
                      /\ vn.zsent[Len(vn.zsent)].recver
                             = vn.hostport_id_map_[Head(fb.net[n]).hostport]
            /\ FabHandling(n, "ADDR_RESOLVED") => vn.zsent = v.zsent
    ]_allvars

\* both vans have installed the transport, each after a reply of the other
C40_Witness ==
    /\ fb.pc = "run"
    /\ \A n \in FabNodes : \E q \in DOMAIN fb.v[n].endpoints_ :
          /\ q # n
          /\ fb.v[n].endpoints_[q].trans = "fabric"
          /\ fb.v[n].endpoints_[q].status = "CONNECTED"
          /\ fb.v[n].endpoints_[q].peer_addr = FabName(q)
          /\ fb.v[n].app.pc = "idle"
          /\ \E i \in DOMAIN fb.v[n].zsent : fb.v[n].zsent[i] = FabRequestFor(n, q)
          /\ \E i \in DOMAIN fb.v[q].zsent :
                /\ fb.v[q].zsent[i].cmd = "ADDR_RESOLVED"
                /\ fb.v[q].zsent[i].aux_id = q

====
